---- MODULE Spec2Model ----
(***************************************************************************)
(* A model of the SelectShift SQL dialect converter                        *)
(* (src/oracle_to_azure_select_converter).  Query text is a TLA+ string;   *)
(* every rewrite stage is an operator from strings to strings that scans   *)
(* the text character by character the way the stage's regular expression  *)
(* or loop does.  A conversion call is a state machine: one action per     *)
(* step of convert(), in the order the code runs them.                     *)
(***************************************************************************)
EXTENDS Integers, Sequences, FiniteSets, TLC

VARIABLES
    pc,          \* position of the current call inside convert()
    dir,         \* "forward" (OracleToAzureConverter) or "reverse" (AzureToOracleConverter)
    query,       \* the argument the entry function was called with
    converted,   \* the local variable `converted` of convert()
    warnings,    \* self.warnings of the converter instance that serves the call
    result,      \* what the call returned: [text, warnings], or Raised; Pending before
    original,    \* round trip: the Oracle query the forward call was given, else None
    stages,      \* the rewrite stages the current call has run, in order
    content,     \* splitter: its argument
    pos,         \* splitter: index of the next character of the for loop
    parts,       \* splitter: local `parts`
    current,     \* splitter: local `current` (the characters joined)
    depth,       \* splitter: local `depth`
    in_quote,    \* splitter: local `in_quote`
    quote_char,  \* splitter: local `quote_char`
    split_last,  \* splitter: what the last executed branch of the loop did
    calls,       \* concurrent invocations: the locals of convert() of each invocation
    collectors,  \* concurrent invocations: self.warnings of each converter instance
    loop_stage,  \* rewrite loop: the stage whose loop runs
    loop_input,  \* rewrite loop: the text the stage was called with
    loop_text,   \* rewrite loop: the local the loop rewrites (`query`, `result`)
    loop_prev,   \* rewrite loop: local `prev` of _convert_nvl
    loop_pc,     \* rewrite loop: "loop" at the head of an iteration, "returned" after
    is_swapped,  \* editor: self.is_swapped
    title,       \* editor: the window title
    left_frame,  \* editor: the label of the left panel
    right_frame, \* editor: the label of the right panel
    left_text,   \* editor: the content of the left text widget
    right_text,  \* editor: the content of the right text widget
    warnings_text, \* editor: the content of the status panel
    swaps        \* editor: how many times swap_queries has run

callVars == <<pc, dir, query, converted, warnings, result, original, stages>>
splitVars == <<content, pos, parts, current, depth, in_quote, quote_char, split_last>>
pairVars == <<calls, collectors>>
loopVars == <<loop_stage, loop_input, loop_text, loop_prev, loop_pc>>
guiVars == <<is_swapped, title, left_frame, right_frame, left_text, right_text,
             warnings_text, swaps>>
vars == <<pc, dir, query, converted, warnings, result, original, stages,
          content, pos, parts, current, depth, in_quote, quote_char, split_last,
          calls, collectors,
          loop_stage, loop_input, loop_text, loop_prev, loop_pc,
          is_swapped, title, left_frame, right_frame, left_text, right_text,
          warnings_text, swaps>>

(***************************************************************************)
(* Values, characters and the classes the regular expressions use.         *)
(***************************************************************************)

\* A Python value that is a string: the query text a caller passes or gets back.
Str(s) == [str |-> s]

\* Python's None, as the value of an argument or of quote_char.
None == [none |-> TRUE]

\* A value that is neither None nor a string (an int passed as the query).
NonString == [int |-> 123]

\* The outcome of a call that ended in an uncaught exception.
Raised == [raised |-> "AttributeError"]

\* `result` while the call has not returned.
Pending == [pending |-> TRUE]

\* isinstance(v, str).
IsString(v) == DOMAIN v = {"str"}

\* bool(v): None and the empty string are falsy, a non-zero int is truthy.
Truthy(v) == IF IsString(v) THEN v.str # "" ELSE v = NonString

\* s[i] for a 1-based index.
Ch(s, i) == SubSeq(s, i, i)

\* The characters i .. j-1 of s.
Slice(s, i, j) == SubSeq(s, i, j - 1)

\* The characters from i to the end of s.
From(s, i) == SubSeq(s, i, Len(s))

\* The least element of a set of indices, or 0 for the empty set.
First(S) == IF S = {} THEN 0 ELSE CHOOSE x \in S : \A y \in S : x <= y

\* The greatest element of a set of indices, or 0 for the empty set.
Last(S) == IF S = {} THEN 0 ELSE CHOOSE x \in S : \A y \in S : y <= x

RECURSIVE Join(_, _, _)
\* ''.join(piece[lo], ..., piece[hi]).
Join(piece, lo, hi) ==
    IF lo > hi THEN ""
    ELSE IF lo = hi THEN piece[lo]
    ELSE Join(piece, lo, (lo + hi) \div 2) \o Join(piece, (lo + hi) \div 2 + 1, hi)

\* The regular expression class \s, on the characters the model's queries use.
IsSpace(c) == c \in {" ", "\t", "\n"}

\* The regular expression class \d.
IsDigit(c) == c \in {"0", "1", "2", "3", "4", "5", "6", "7", "8", "9"}

LowerLetters == "abcdefghijklmnopqrstuvwxyz"

UpperLetters == "ABCDEFGHIJKLMNOPQRSTUVWXYZ"

LowerSet == {Ch(LowerLetters, k) : k \in 1..26}

UpperSet == {Ch(UpperLetters, k) : k \in 1..26}

UpperMap == [c \in LowerSet |-> Ch(UpperLetters, CHOOSE k \in 1..26 : Ch(LowerLetters, k) = c)]

\* str.upper() on one character (also how re.IGNORECASE compares letters).
UpperChar(c) == IF c \in LowerSet THEN UpperMap[c] ELSE c

\* The regular expression class \w.
IsWordChar(c) == IsDigit(c) \/ c = "_" \/ c \in LowerSet \/ c \in UpperSet

\* str.upper().
Upper(s) == Join([i \in 1..Len(s) |-> UpperChar(Ch(s, i))], 1, Len(s))

\* The index after a greedy \s* that starts at i.
SkipSpace(s, i) == First({k \in i..(Len(s) + 1) : k > Len(s) \/ ~IsSpace(Ch(s, k))})

\* The index after a greedy \d* that starts at i.
SkipDigits(s, i) == First({k \in i..(Len(s) + 1) : k > Len(s) \/ ~IsDigit(Ch(s, k))})

\* The index after a greedy \w* that starts at i.
SkipWord(s, i) == First({k \in i..(Len(s) + 1) : k > Len(s) \/ ~IsWordChar(Ch(s, k))})

\* str.lstrip(), str.rstrip() and str.strip() with no argument.
LStrip(s) == From(s, SkipSpace(s, 1))

RStrip(s) == SubSeq(s, 1, Last({k \in 1..Len(s) : ~IsSpace(Ch(s, k))}))

Strip(s) == LStrip(RStrip(s))

\* str.startswith(w).
StartsWith(s, w) == Len(s) >= Len(w) /\ SubSeq(s, 1, Len(w)) = w

\* The literal w at index i of s, compared exactly.
LitAt(s, i, w) ==
    /\ i >= 1
    /\ i + Len(w) - 1 <= Len(s)
    /\ SubSeq(s, i, i + Len(w) - 1) = w

\* The literal w (given in upper case) at index i of s, compared as re.IGNORECASE does.
LitAtCI(s, i, w) ==
    /\ i >= 1
    /\ i + Len(w) - 1 <= Len(s)
    /\ \A k \in 1..Len(w) : UpperChar(Ch(s, i + k - 1)) = Ch(w, k)

\* The regular expression assertion \b between s[i-1] and s[i].
WordBoundary(s, i) ==
    (i > 1 /\ i - 1 <= Len(s) /\ IsWordChar(Ch(s, i - 1)))
        # (i >= 1 /\ i <= Len(s) /\ IsWordChar(Ch(s, i)))

\* The index of the first character c at or after i, or 0 when there is none.
IndexOf(s, c, i) == First({k \in i..Len(s) : Ch(s, k) = c})

\* `sub in s` for strings.
Contains(s, sub) == \E i \in 1..Len(s) : LitAt(s, i, sub)

\* pattern.sub(repl, s): the matches are taken left to right without overlap.  end[i]
\* is the index after the match that starts at i (0: no match at i), repl[i] its
\* replacement.
ReSub(s, end, repl) ==
    LET starts == {i \in 1..Len(s) : end[i] > 0}
        F[from \in 1..(Len(s) + 1)] ==
            LET i == First({k \in starts : k >= from})
            IN IF i = 0 THEN From(s, from)
               ELSE Slice(s, from, i) \o repl[i] \o F[end[i]]
    IN F[1]

\* pattern.sub(repl, s, count=1): only the first match is replaced.
ReSubFirst(s, end, repl) ==
    LET i == First({k \in 1..Len(s) : end[k] > 0})
    IN IF i = 0 THEN s ELSE Slice(s, 1, i) \o repl[i] \o From(s, end[i])

\* pattern.search(s) finds a match.
ReSearch(s, end) == \E i \in 1..Len(s) : end[i] > 0

\* str.replace(old, new): every non-overlapping occurrence, left to right.
Replace(s, old, new) ==
    ReSub(s, [i \in 1..Len(s) |-> IF LitAt(s, i, old) THEN i + Len(old) ELSE 0],
             [i \in 1..Len(s) |-> new])

\* int(text) for a text of decimal digits.
ParseInt(text) ==
    LET F[j \in 0..Len(text)] ==
            IF j = 0 THEN 0
            ELSE 10 * F[j - 1] + (CHOOSE d \in 0..9 : Ch("0123456789", d + 1) = Ch(text, j))
    IN F[Len(text)]

\* str(n) for an integer, as an f-string formats it.
IntToStr(n) ==
    LET F[m \in 0..(IF n < 0 THEN -n ELSE n)] ==
            IF m < 10 THEN Ch("0123456789", m + 1)
            ELSE F[m \div 10] \o Ch("0123456789", (m % 10) + 1)
    IN IF n < 0 THEN "-" \o F[-n] ELSE F[n]

\* re.sub(r' {2,}', ' ', s): every run of two or more spaces becomes one space.
CollapseSpaces(s) ==
    Join([i \in 1..Len(s) |->
            IF Ch(s, i) = " " /\ i < Len(s) /\ Ch(s, i + 1) = " " THEN "" ELSE Ch(s, i)],
         1, Len(s))

(***************************************************************************)
(* The depth/quote-aware argument splitter.                                *)
(***************************************************************************)

\* The splitter's locals before the first character.
SplitStart == [parts |-> <<>>, current |-> "", depth |-> 0,
               in_quote |-> FALSE, quote_char |-> None, last |-> "start"]

\* One iteration of `for char in content`: the if/elif chain, in the code's order.
\* `last` names the branch taken.  (char == quote_char is only evaluated with
\* in_quote set, where quote_char is a character.)
SplitChar(st, char) ==
    IF char \in {"'", "\""} /\ ~st.in_quote
    THEN [st EXCEPT !.in_quote = TRUE, !.quote_char = char,
                    !.current = st.current \o char, !.last = "open_quote"]
    ELSE IF st.in_quote /\ char = st.quote_char
    THEN [st EXCEPT !.in_quote = FALSE, !.quote_char = None,
                    !.current = st.current \o char, !.last = "close_quote"]
    ELSE IF char = "(" /\ ~st.in_quote
    THEN [st EXCEPT !.depth = st.depth + 1,
                    !.current = st.current \o char, !.last = "open_paren"]
    ELSE IF char = ")" /\ ~st.in_quote
    THEN [st EXCEPT !.depth = st.depth - 1,
                    !.current = st.current \o char, !.last = "close_paren"]
    ELSE IF char = "," /\ st.depth = 0 /\ ~st.in_quote
    THEN [st EXCEPT !.parts = Append(st.parts, Strip(st.current)),
                    !.current = "", !.last = "split"]
    ELSE [st EXCEPT !.current = st.current \o char, !.last = "keep"]

\* The code after the loop: a non-empty `current` is the last part.
SplitFinish(st) ==
    IF st.current # "" THEN Append(st.parts, Strip(st.current)) ELSE st.parts

RECURSIVE SplitLoop(_, _, _)
\* The loop `for char in content` from index j on, with the locals st.
\* (The test on st.depth makes the locals of one iteration values before the next
\* iteration starts, as they are in the code.)
SplitLoop(st, text, j) ==
    IF st.depth = st.depth /\ j > Len(text) THEN st
    ELSE SplitLoop(SplitChar(st, Ch(text, j)), text, j + 1)

_split_function_args(text) == SplitFinish(SplitLoop(SplitStart, text, 1))

_split_decode_args(text) == SplitFinish(SplitLoop(SplitStart, text, 1))

(***************************************************************************)
(* Shapes shared by the compiled patterns.  A pattern is an operator        *)
(* P(s, i): the index after the match that starts at index i of s, or 0    *)
(* when the pattern does not match there.                                  *)
(***************************************************************************)

\* Every index of s mapped by a pattern, as ReSub and ReSearch take it.
Idx(s) == 1..Len(s)

\* \bNAME\s*\( at index i: the index of the opening parenthesis, or 0.
CallAt(s, i, name) ==
    IF WordBoundary(s, i) /\ LitAtCI(s, i, name)
    THEN LET p == SkipSpace(s, i + Len(name))
         IN IF p <= Len(s) /\ Ch(s, p) = "(" THEN p ELSE 0
    ELSE 0

\* The number of "(" minus the number of ")" among the characters i .. j-1.
ParenDepth(s, i, j) ==
    Cardinality({m \in i..(j - 1) : Ch(s, m) = "("})
        - Cardinality({m \in i..(j - 1) : Ch(s, m) = ")"})

\* ((?:[^()]|\([^()]*\))*)\) from index k (the character after an opening
\* parenthesis): the index of the closing parenthesis, or 0 when the text nests
\* deeper than one level, or ends, before it.
OneLevelClose(s, k) ==
    LET c == First({j \in k..Len(s) : Ch(s, j) = ")" /\ ParenDepth(s, k, j) = 0})
    IN IF c > 0 /\ \A m \in k..(c - 1) : Ch(s, m) = "(" => ParenDepth(s, k, m) = 0
       THEN c ELSE 0

\* The scan `while pos < len(result) and depth > 0` from the opening parenthesis at
\* index p: the index after the parenthesis that brings depth to 0, or 0 when depth
\* is still positive at the end of the text.
MatchingParenEnd(s, p) ==
    LET c == First({j \in (p + 1)..Len(s) : Ch(s, j) = ")" /\ ParenDepth(s, p + 1, j) = 0})
    IN IF c > 0 THEN c + 1 ELSE 0

\* pattern.search(s).start() for the call pattern \bNAME\s*\(, or 0.
SearchCall(s, name) == First({i \in Idx(s) : CallAt(s, i, name) > 0})

\* pattern.sub(repl + '(', s) for the call pattern \bNAME\s*\(.
RenameCall(s, name, repl) ==
    ReSub(s, [i \in Idx(s) |-> IF CallAt(s, i, name) > 0 THEN CallAt(s, i, name) + 1 ELSE 0],
             [i \in Idx(s) |-> repl \o "("])

(***************************************************************************)
(* Forward stages (OracleToAzureConverter).                                *)
(***************************************************************************)

\* _NVL_PATTERN at index i.
_NVL_PATTERN(s, i) ==
    LET p == CallAt(s, i, "NVL")
        c == OneLevelClose(s, p + 1)
    IN IF p > 0 /\ c > 0 THEN c + 1 ELSE 0

\* One pass of _NVL_PATTERN.sub: every match becomes ISNULL(group 1).
NvlPass(s) ==
    ReSub(s, [i \in Idx(s) |-> _NVL_PATTERN(s, i)],
             [i \in Idx(s) |->
                "ISNULL(" \o Slice(s, CallAt(s, i, "NVL") + 1, _NVL_PATTERN(s, i) - 1) \o ")"])

RECURSIVE _convert_nvl(_)
\* while prev != query: apply the pass again.
_convert_nvl(s) == LET n == NvlPass(s) IN IF n = s THEN s ELSE _convert_nvl(n)

\* _DECODE_PATTERN at index i.
_DECODE_PATTERN(s, i) ==
    LET p == CallAt(s, i, "DECODE")
        c == OneLevelClose(s, p + 1)
    IN IF p > 0 /\ c > 0 THEN c + 1 ELSE 0

\* The WHEN branches of `for i in range(1, len(parts) - 1, 2)`, joined by " ".
\* args[1] is parts[0] of the code.
CaseParts(args) ==
    LET n == Len(args)
        F[i \in 1..(n + 2)] ==
            IF i >= n - 1 THEN ""
            ELSE (IF i > 1 THEN " " ELSE "")
                 \o "WHEN " \o args[1] \o " = " \o args[i + 1] \o " THEN " \o args[i + 2]
                 \o F[i + 2]
    IN F[1]

\* replace_decode for one match: `whole` is group 0 and `inner` group 1.
replace_decode(whole, inner) ==
    LET args == _split_decode_args(Strip(inner))
        n == Len(args)
    IN IF n < 3 THEN whole
       ELSE "CASE " \o CaseParts(args)
            \o (IF n % 2 = 0 THEN " ELSE " \o args[n] ELSE "")
            \o " END"

\* _DECODE_PATTERN.sub(replace_decode, query): one pass.
_convert_decode(s) ==
    ReSub(s, [i \in Idx(s) |-> _DECODE_PATTERN(s, i)],
             [i \in Idx(s) |->
                replace_decode(Slice(s, i, _DECODE_PATTERN(s, i)),
                               Slice(s, CallAt(s, i, "DECODE") + 1, _DECODE_PATTERN(s, i) - 1))])

\* _SYSDATE_PATTERN, \bSYSDATE\b, at index i.
_SYSDATE_PATTERN(s, i) ==
    IF WordBoundary(s, i) /\ LitAtCI(s, i, "SYSDATE") /\ WordBoundary(s, i + 7)
    THEN i + 7 ELSE 0

_convert_sysdate(s) ==
    ReSub(s, [i \in Idx(s) |-> _SYSDATE_PATTERN(s, i)], [i \in Idx(s) |-> "GETDATE()"])

\* _CONCAT_PATTERN.sub('+', query), the pattern being \|\|.
_convert_string_concatenation(s) == Replace(s, "||", "+")

RECURSIVE _convert_date_trunc(_)
\* The while loop: the first TRUNC( is rewritten and the search starts over; a call
\* whose parenthesis never closes ends the loop.
_convert_date_trunc(s) ==
    LET start == SearchCall(s, "TRUNC")
        paren == CallAt(s, start, "TRUNC")
        end == MatchingParenEnd(s, paren)
    IN IF start = 0 THEN s
       ELSE IF end = 0 THEN s
       ELSE _convert_date_trunc(
                Slice(s, 1, start)
                \o "CAST(" \o Strip(Slice(s, paren + 1, end - 1)) \o " AS DATE)"
                \o From(s, end))

\* _SUBSTR_PATTERN.sub('SUBSTRING(', query).
_convert_substr(s) == RenameCall(s, "SUBSTR", "SUBSTRING")

\* _LENGTH_PATTERN.sub('LEN(', query).
_convert_length(s) == RenameCall(s, "LENGTH", "LEN")

\* _CEIL_PATTERN.sub('CEILING(', query).
_convert_ceil(s) == RenameCall(s, "CEIL", "CEILING")

\* _FROM_DUAL_PATTERN compiled without re.IGNORECASE.
FromDualCaseSensitive(s, i) ==
    LET f == SkipSpace(s, i)
        d == SkipSpace(s, f + 4)
    IN IF /\ WordBoundary(s, f) /\ LitAt(s, f, "FROM")
          /\ d > f + 4
          /\ LitAt(s, d, "DUAL") /\ WordBoundary(s, d + 4)
       THEN SkipSpace(s, d + 4)
       ELSE 0

\* _FROM_DUAL_PATTERN, \s*\bFROM\s+DUAL\b\s*, at index i.
_FROM_DUAL_PATTERN(s, i) ==
    LET f == SkipSpace(s, i)
        d == SkipSpace(s, f + 4)
    IN IF /\ WordBoundary(s, f) /\ LitAtCI(s, f, "FROM")
          /\ d > f + 4
          /\ LitAtCI(s, d, "DUAL") /\ WordBoundary(s, d + 4)
       THEN SkipSpace(s, d + 4)
       ELSE 0

\* _FROM_DUAL_PATTERN.sub(' ', query), then runs of spaces are collapsed.
_remove_from_dual(s) ==
    CollapseSpaces(ReSub(s, [i \in Idx(s) |-> _FROM_DUAL_PATTERN(s, i)],
                            [i \in Idx(s) |-> " "]))

\* The groups of _ROWNUM_WHERE_PATTERN, \b(WHERE|AND)\s+ROWNUM\s*(<=?|<)\s*(\d+), for a
\* match attempt at index i: `end` is 0 when there is no match.
RownumMatch(s, i) ==
    LET kw == IF LitAtCI(s, i, "WHERE") THEN 5 ELSE IF LitAtCI(s, i, "AND") THEN 3 ELSE 0
        r == SkipSpace(s, i + kw)
        o == SkipSpace(s, r + 6)
        dle == SkipSpace(s, o + 2)
        dlt == SkipSpace(s, o + 1)
        NoMatch == [end |-> 0, keyword |-> "", operator |-> "", limit_str |-> ""]
    IN IF ~(/\ WordBoundary(s, i) /\ kw > 0
            /\ r > i + kw /\ LitAtCI(s, r, "ROWNUM")
            /\ LitAt(s, o, "<"))
       THEN NoMatch
       ELSE IF LitAt(s, o, "<=") /\ SkipDigits(s, dle) > dle
       THEN [end |-> SkipDigits(s, dle), keyword |-> Slice(s, i, i + kw),
             operator |-> "<=", limit_str |-> Slice(s, dle, SkipDigits(s, dle))]
       ELSE IF SkipDigits(s, dlt) > dlt
       THEN [end |-> SkipDigits(s, dlt), keyword |-> Slice(s, i, i + kw),
             operator |-> "<", limit_str |-> Slice(s, dlt, SkipDigits(s, dlt))]
       ELSE NoMatch

_ROWNUM_WHERE_PATTERN(s, i) == RownumMatch(s, i).end

\* \bA\s+B\b at index i, for the two clean-up patterns WHERE\s+AND and AND\s+AND.
WordPairAt(s, i, a, b) ==
    LET k == SkipSpace(s, i + Len(a))
    IN IF /\ WordBoundary(s, i) /\ LitAtCI(s, i, a)
          /\ k > i + Len(a)
          /\ LitAtCI(s, k, b) /\ WordBoundary(s, k + Len(b))
       THEN k + Len(b) ELSE 0

\* _SELECT_PATTERN, \bSELECT\b, at index i.
_SELECT_PATTERN(s, i) ==
    IF WordBoundary(s, i) /\ LitAtCI(s, i, "SELECT") /\ WordBoundary(s, i + 6)
    THEN i + 6 ELSE 0

\* RownumLimit without the `- 1` of the strict bound.
RownumLimitNoDecrement(m) == ParseInt(m.limit_str)

\* `limit` of _convert_rownum_to_top for the first match m.
RownumLimit(m) ==
    IF m.operator = "<" THEN ParseInt(m.limit_str) - 1 ELSE ParseInt(m.limit_str)

_convert_rownum_to_top(s) ==
    LET first == First({i \in Idx(s) : _ROWNUM_WHERE_PATTERN(s, i) > 0})
        limit == RownumLimit(RownumMatch(s, first))
        removed == ReSub(s, [i \in Idx(s) |-> _ROWNUM_WHERE_PATTERN(s, i)],
                            [i \in Idx(s) |-> ""])
        c1 == ReSub(removed, [i \in Idx(removed) |-> WordPairAt(removed, i, "WHERE", "AND")],
                             [i \in Idx(removed) |-> "WHERE"])
        c2 == ReSub(c1, [i \in Idx(c1) |-> WordPairAt(c1, i, "AND", "AND")],
                        [i \in Idx(c1) |-> "AND"])
        c3 == CollapseSpaces(c2)
    IN IF first = 0 THEN s
       ELSE ReSubFirst(c3, [i \in Idx(c3) |-> _SELECT_PATTERN(c3, i)],
                           [i \in Idx(c3) |-> "SELECT TOP " \o IntToStr(limit)])

\* \bFETCH\s+FIRST\s+(\d+)\s+ROWS?\s+ at index i, shared by the two FETCH patterns:
\* `digits` and `sep` are the bounds of group 1, `tail` the index after the last \s+.
FetchHead(s, i) ==
    LET f == SkipSpace(s, i + 5)
        d == SkipSpace(s, f + 5)
        e == SkipDigits(s, d)
        r == SkipSpace(s, e)
        r2 == IF LitAtCI(s, r + 3, "S") THEN r + 4 ELSE r + 3
        tail == SkipSpace(s, r2)
    IN IF /\ WordBoundary(s, i) /\ LitAtCI(s, i, "FETCH")
          /\ f > i + 5 /\ LitAtCI(s, f, "FIRST")
          /\ d > f + 5 /\ e > d
          /\ r > e /\ LitAtCI(s, r, "ROW")
          /\ tail > r2
       THEN [digits |-> d, sep |-> e, tail |-> tail]
       ELSE [digits |-> 0, sep |-> 0, tail |-> 0]

\* _FETCH_FIRST_PATTERN, \bFETCH\s+FIRST\s+(\d+)\s+ROWS?\s+ONLY, at index i.
_FETCH_FIRST_PATTERN(s, i) ==
    LET h == FetchHead(s, i)
    IN IF h.tail > 0 /\ LitAtCI(s, h.tail, "ONLY") THEN h.tail + 4 ELSE 0

_convert_fetch_first(s) ==
    ReSub(s, [i \in Idx(s) |-> _FETCH_FIRST_PATTERN(s, i)],
             [i \in Idx(s) |->
                "OFFSET 0 ROWS FETCH NEXT "
                \o Slice(s, FetchHead(s, i).digits, FetchHead(s, i).sep) \o " ROWS ONLY"])

\* The five str.replace calls, in the code's order.
_decode_html_entities(s) ==
    Replace(Replace(Replace(Replace(Replace(s, "&gt;", ">"), "&lt;", "<"), "&amp;", "&"),
                    "&quot;", "\""), "&apos;", "'")

\* _OPTIMIZER_HINTS_PATTERN, /\*\+[^*]*\*/, at index i.
_OPTIMIZER_HINTS_PATTERN(s, i) ==
    LET star == IndexOf(s, "*", i + 3)
    IN IF LitAt(s, i, "/*+") /\ star > 0 /\ LitAt(s, star, "*/") THEN star + 2 ELSE 0

_remove_optimizer_hints(s) ==
    ReSub(s, [i \in Idx(s) |-> _OPTIMIZER_HINTS_PATTERN(s, i)], [i \in Idx(s) |-> " "])

\* The opening quote of _DATE_LITERAL_PATTERN, \bDATE\s+'([^']+)', matched at index i.
DateLiteralQuote(s, i) ==
    LET q == SkipSpace(s, i + 4)
    IN IF /\ WordBoundary(s, i) /\ LitAtCI(s, i, "DATE")
          /\ q > i + 4 /\ LitAt(s, q, "'")
          /\ IndexOf(s, "'", q + 1) > q + 1
       THEN q ELSE 0

_DATE_LITERAL_PATTERN(s, i) ==
    IF DateLiteralQuote(s, i) > 0 THEN IndexOf(s, "'", DateLiteralQuote(s, i) + 1) + 1 ELSE 0

_convert_date_literals(s) ==
    ReSub(s, [i \in Idx(s) |-> _DATE_LITERAL_PATTERN(s, i)],
             [i \in Idx(s) |-> Slice(s, DateLiteralQuote(s, i), _DATE_LITERAL_PATTERN(s, i))])

\* \bNAME\s*\(([^)]+)\) at index i: the index of the closing parenthesis, or 0.
OneArgClose(s, i, name) ==
    LET p == CallAt(s, i, name)
        c == IndexOf(s, ")", p + 1)
    IN IF p > 0 /\ c > p + 1 THEN c ELSE 0

\* Group 1 of \bNAME\s*\(([^)]+)\), stripped.
OneArg(s, i, name) == Strip(Slice(s, CallAt(s, i, name) + 1, OneArgClose(s, i, name)))

_USING_CLAUSE_PATTERN(s, i) ==
    IF OneArgClose(s, i, "USING") > 0 THEN OneArgClose(s, i, "USING") + 1 ELSE 0

replace_using(column) ==
    "ON " \o column \o " /* TODO: Add table aliases - e.g., ON t." \o column
        \o " = outer." \o column \o " */"

_convert_using_clause(s) ==
    ReSub(s, [i \in Idx(s) |-> _USING_CLAUSE_PATTERN(s, i)],
             [i \in Idx(s) |-> replace_using(OneArg(s, i, "USING"))])

\* \bNAME\s*\(([^,]+),\s*([^)]+)\) at index i: the bounds of the two groups, `close`
\* being the index of the closing parenthesis, 0 when there is no match.
TwoArgMatch(s, i, name) ==
    LET p == CallAt(s, i, name)
        comma == IndexOf(s, ",", p + 1)
        c == IndexOf(s, ")", comma + 1)
    IN IF p > 0 /\ comma > p + 1 /\ c > comma + 1
       THEN [open |-> p, comma |-> comma, close |-> c]
       ELSE [open |-> 0, comma |-> 0, close |-> 0]

TwoArgEnd(s, i, name) ==
    IF TwoArgMatch(s, i, name).close > 0 THEN TwoArgMatch(s, i, name).close + 1 ELSE 0

TwoArgFirst(s, i, name) ==
    Strip(Slice(s, TwoArgMatch(s, i, name).open + 1, TwoArgMatch(s, i, name).comma))

TwoArgSecond(s, i, name) ==
    Strip(Slice(s, TwoArgMatch(s, i, name).comma + 1, TwoArgMatch(s, i, name).close))

_MONTHS_BETWEEN_PATTERN(s, i) == TwoArgEnd(s, i, "MONTHS_BETWEEN")

_convert_months_between(s) ==
    ReSub(s, [i \in Idx(s) |-> _MONTHS_BETWEEN_PATTERN(s, i)],
             [i \in Idx(s) |-> "DATEDIFF(MONTH, " \o TwoArgSecond(s, i, "MONTHS_BETWEEN")
                                  \o ", " \o TwoArgFirst(s, i, "MONTHS_BETWEEN") \o ")"])

_INSTR_PATTERN(s, i) == TwoArgEnd(s, i, "INSTR")

_convert_instr(s) ==
    ReSub(s, [i \in Idx(s) |-> _INSTR_PATTERN(s, i)],
             [i \in Idx(s) |-> "CHARINDEX(" \o TwoArgSecond(s, i, "INSTR")
                                  \o ", " \o TwoArgFirst(s, i, "INSTR") \o ")"])

\* _FETCH_WITH_TIES_PATTERN, \bFETCH\s+FIRST\s+(\d+)\s+ROWS?\s+WITH\s+TIES, at index i.
_FETCH_WITH_TIES_PATTERN(s, i) ==
    LET h == FetchHead(s, i)
        t == SkipSpace(s, h.tail + 4)
    IN IF /\ h.tail > 0 /\ LitAtCI(s, h.tail, "WITH")
          /\ t > h.tail + 4 /\ LitAtCI(s, t, "TIES")
       THEN t + 4 ELSE 0

replace_fetch_ties(n) ==
    "-- FETCH FIRST " \o n \o " ROWS WITH TIES: Use SELECT TOP (" \o n \o ") WITH TIES instead"

_convert_fetch_with_ties(s) ==
    ReSub(s, [i \in Idx(s) |-> _FETCH_WITH_TIES_PATTERN(s, i)],
             [i \in Idx(s) |->
                replace_fetch_ties(Slice(s, FetchHead(s, i).digits, FetchHead(s, i).sep))])

\* (?:\([^()]*\))* from index k: the index after the last group that matches.
RECURSIVE ParenGroups(_, _)
ParenGroups(s, k) ==
    LET c == First({j \in (k + 1)..Len(s) : Ch(s, j) \in {"(", ")"}})
    IN IF LitAt(s, k, "(") /\ c > 0 /\ Ch(s, c) = ")" THEN ParenGroups(s, c + 1) ELSE k

\* _TRIM_PATTERN, \bTRIM\s*\(([^()]+(?:\([^()]*\))*)\), at index i: the index of the
\* closing parenthesis, or 0.
TrimClose(s, i) ==
    LET p == CallAt(s, i, "TRIM")
        k == First({j \in (p + 1)..Len(s) : Ch(s, j) \in {"(", ")"}})
        c == ParenGroups(s, k)
    IN IF p > 0 /\ k > p + 1 /\ LitAt(s, c, ")") THEN c ELSE 0

_TRIM_PATTERN(s, i) == IF TrimClose(s, i) > 0 THEN TrimClose(s, i) + 1 ELSE 0

_convert_trim(s) ==
    ReSub(s, [i \in Idx(s) |-> _TRIM_PATTERN(s, i)],
             [i \in Idx(s) |->
                "LTRIM(RTRIM(" \o Strip(Slice(s, CallAt(s, i, "TRIM") + 1, TrimClose(s, i)))
                    \o "))"])

_INITCAP_PATTERN(s, i) ==
    IF OneArgClose(s, i, "INITCAP") > 0 THEN OneArgClose(s, i, "INITCAP") + 1 ELSE 0

replace_initcap(arg) ==
    "UPPER(LEFT(" \o arg \o ",1)) + LOWER(SUBSTRING(" \o arg \o ",2,LEN(" \o arg \o ")))"

_convert_initcap(s) ==
    ReSub(s, [i \in Idx(s) |-> _INITCAP_PATTERN(s, i)],
             [i \in Idx(s) |-> replace_initcap(OneArg(s, i, "INITCAP"))])

\* The start indices of the matches pattern.sub visits, left to right.
ReMatches(s, end) ==
    LET starts == {i \in 1..Len(s) : end[i] > 0}
        F[from \in 1..(Len(s) + 1)] ==
            LET i == First({k \in starts : k >= from})
            IN IF i = 0 THEN <<>> ELSE <<i>> \o F[end[i]]
    IN F[1]

\* The text after the last '.', or the whole text: parts[-1] of split('.').
LastDotPart(s) == From(s, Last({j \in Idx(s) : Ch(s, j) = "."}) + 1)

\* \s+WITHIN\s+GROUP\s*\(\s*ORDER\s+BY\s+([^)]+)\) from index k: the bounds of group 3
\* and the index after the match, all 0 when the optional part does not match.
WithinGroup(s, k) ==
    LET w == SkipSpace(s, k)
        g == SkipSpace(s, w + 6)
        p == SkipSpace(s, g + 5)
        o == SkipSpace(s, p + 1)
        b == SkipSpace(s, o + 5)
        e == SkipSpace(s, b + 2)
        c == IndexOf(s, ")", e)
        NoMatch == [from |-> 0, to |-> 0, end |-> 0]
    IN IF ~(/\ w > k /\ LitAtCI(s, w, "WITHIN")
            /\ g > w + 6 /\ LitAtCI(s, g, "GROUP")
            /\ LitAt(s, p, "(")
            /\ LitAtCI(s, o, "ORDER")
            /\ b > o + 5 /\ LitAtCI(s, b, "BY")
            /\ e > b + 2 /\ c > 0)
       THEN NoMatch
       ELSE IF c > e THEN [from |-> e, to |-> c, end |-> c + 1]
       ELSE IF e > b + 3 THEN [from |-> e - 1, to |-> c, end |-> c + 1]
       ELSE NoMatch

\* _LISTAGG_PATTERN at index i: the groups and the index after the match (0: no match).
\* order_by is None when the WITHIN GROUP part is absent.
ListaggMatch(s, i) ==
    LET p == CallAt(s, i, "LISTAGG")
        k == First({j \in (p + 1)..Len(s) : Ch(s, j) \in {",", ")"}})
        q1 == SkipSpace(s, k + 1)
        q2 == IndexOf(s, "'", q1 + 1)
        wg == WithinGroup(s, q2 + 2)
    IN IF /\ p > 0 /\ k > p + 1 /\ LitAt(s, k, ",")
          /\ LitAt(s, q1, "'") /\ q2 > q1 + 1 /\ LitAt(s, q2 + 1, ")")
       THEN [end |-> IF wg.end > 0 THEN wg.end ELSE q2 + 2,
             distinct_col |-> Strip(Slice(s, p + 1, k)),
             delimiter |-> Slice(s, q1 + 1, q2),
             order_by |-> IF wg.end > 0 THEN Slice(s, wg.from, wg.to) ELSE "",
             has_order |-> wg.end > 0]
       ELSE [end |-> 0, distinct_col |-> "", delimiter |-> "", order_by |-> "",
             has_order |-> FALSE]

_LISTAGG_PATTERN(s, i) == ListaggMatch(s, i).end

\* \bDISTINCT\s+ at index i.
DistinctAt(s, i) ==
    LET k == SkipSpace(s, i + 8)
    IN IF WordBoundary(s, i) /\ LitAtCI(s, i, "DISTINCT") /\ k > i + 8 THEN k ELSE 0

has_distinct(m) == Contains(Upper(m.distinct_col), "DISTINCT")

col_name(m) ==
    Strip(ReSub(m.distinct_col, [i \in Idx(m.distinct_col) |-> DistinctAt(m.distinct_col, i)],
                                [i \in Idx(m.distinct_col) |-> ""]))

replace_listagg(m) ==
    IF has_distinct(m)
    THEN IF m.has_order
         THEN "/* LISTAGG(DISTINCT " \o col_name(m) \o ", '" \o m.delimiter
                  \o "') WITHIN GROUP (ORDER BY " \o m.order_by \o ") */\n"
              \o "        (SELECT STRING_AGG(x." \o LastDotPart(col_name(m)) \o ", '"
                  \o m.delimiter \o "') WITHIN GROUP (ORDER BY x."
                  \o LastDotPart(m.order_by) \o ")\n"
              \o "         FROM (SELECT DISTINCT " \o col_name(m)
                  \o " FROM <source_table>) AS x)"
         ELSE "/* LISTAGG(DISTINCT " \o col_name(m) \o ", '" \o m.delimiter \o "') */\n"
              \o "        (SELECT STRING_AGG(x." \o LastDotPart(col_name(m)) \o ", '"
                  \o m.delimiter \o "')\n"
              \o "         FROM (SELECT DISTINCT " \o col_name(m)
                  \o " FROM <source_table>) AS x)"
    ELSE IF m.has_order
         THEN "STRING_AGG(" \o m.distinct_col \o ", '" \o m.delimiter
                  \o "') WITHIN GROUP (ORDER BY " \o m.order_by \o ")"
         ELSE "STRING_AGG(" \o m.distinct_col \o ", '" \o m.delimiter \o "')"

_convert_listagg(s) ==
    ReSub(s, [i \in Idx(s) |-> _LISTAGG_PATTERN(s, i)],
             [i \in Idx(s) |-> replace_listagg(ListaggMatch(s, i))])

\* ,\s*'([^']+)' from index k: the index of the closing quote, or 0.
QuotedArgClose(s, k) ==
    LET q1 == SkipSpace(s, k + 1)
        q2 == IndexOf(s, "'", q1 + 1)
    IN IF LitAt(s, k, ",") /\ LitAt(s, q1, "'") /\ q2 > q1 + 1 THEN q2 ELSE 0

\* _REGEXP_LIKE_PATTERN at index i: the groups and the index after the match.
RegexpLikeMatch(s, i) ==
    LET p == CallAt(s, i, "REGEXP_LIKE")
        comma == IndexOf(s, ",", p + 1)
        q2 == QuotedArgClose(s, comma)
        f2 == QuotedArgClose(s, q2 + 1)
        NoMatch == [end |-> 0, column |-> "", pattern |-> "", flags |-> ""]
    IN IF ~(p > 0 /\ comma > p + 1 /\ q2 > 0) THEN NoMatch
       ELSE IF q2 > 0 /\ f2 > 0 /\ LitAt(s, f2 + 1, ")")
       THEN [end |-> f2 + 2, column |-> Strip(Slice(s, p + 1, comma)),
             pattern |-> Slice(s, SkipSpace(s, comma + 1) + 1, q2),
             flags |-> Slice(s, SkipSpace(s, q2 + 2) + 1, f2)]
       ELSE IF LitAt(s, q2 + 1, ")")
       THEN [end |-> q2 + 2, column |-> Strip(Slice(s, p + 1, comma)),
             pattern |-> Slice(s, SkipSpace(s, comma + 1) + 1, q2), flags |-> ""]
       ELSE NoMatch

_REGEXP_LIKE_PATTERN(s, i) == RegexpLikeMatch(s, i).end

\* repr() of a string without a single quote.
Repr(s) == "'" \o Replace(Replace(Replace(s, "\\", "\\\\"), "\n", "\\n"), "\t", "\\t") \o "'"

HasAny(s, chars) == \E j \in Idx(s) : Ch(s, j) \in chars

like_alternative(column, pattern) ==
    IF pattern = "^[A-Z]" THEN column \o " LIKE '[A-Z]%' COLLATE Latin1_General_CS_AS"
    ELSE IF pattern = "^[a-z]" THEN column \o " LIKE '[a-z]%' COLLATE Latin1_General_CS_AS"
    ELSE IF pattern = "^[0-9]" \/ pattern = "^\\d" THEN column \o " LIKE '[0-9]%'"
    ELSE IF /\ LitAt(pattern, 1, "^")
            /\ ~HasAny(From(pattern, 2), {"|", "[", "(", "+", "*", "?", "$", ".", "\\"})
    THEN column \o " LIKE '" \o From(pattern, 2) \o "%'"
    ELSE IF /\ LitAt(pattern, Len(pattern), "$")
            /\ ~HasAny(Slice(pattern, 1, Len(pattern)),
                       {"|", "[", "(", "+", "*", "?", "^", ".", "\\"})
    THEN column \o " LIKE '%" \o Slice(pattern, 1, Len(pattern)) \o "'"
    ELSE IF pattern = ".*" THEN column \o " IS NOT NULL"
    ELSE ""

replace_regexp_like(m) ==
    LET native_regexp ==
            "REGEXP_LIKE(" \o m.column \o ", '" \o m.pattern \o "'"
                \o (IF m.flags # "" THEN ", " \o Repr(m.flags) ELSE "") \o ")"
    IN IF like_alternative(m.column, m.pattern) # ""
       THEN native_regexp \o "  /* For older SQL Server: "
                \o like_alternative(m.column, m.pattern) \o " */"
       ELSE native_regexp
                \o "  /* WARNING: Requires SQL Server 2025+ or Azure SQL compat >= 170 */"

_convert_regexp_like(s) ==
    ReSub(s, [i \in Idx(s) |-> _REGEXP_LIKE_PATTERN(s, i)],
             [i \in Idx(s) |-> replace_regexp_like(RegexpLikeMatch(s, i))])

\* str.strip("'"): the text without its leading and trailing single quotes.
StripQuotes(s) ==
    LET a == First({j \in Idx(s) : Ch(s, j) # "'"})
        b == Last({j \in Idx(s) : Ch(s, j) # "'"})
    IN IF a = 0 THEN "" ELSE Slice(s, a, b + 1)

\* The replacement _convert_to_char builds from the split arguments.
ToCharReplacement(args) ==
    LET date_expr == Strip(args[1])
        format_str == StripQuotes(Strip(args[2]))
    IN IF Upper(format_str) \in {"YYYY-MM-DD", "YYYY-MM-DD HH24:MI:SS"}
       THEN "CONVERT(VARCHAR(10), " \o date_expr \o ", 120)"
       ELSE "FORMAT(" \o date_expr \o ", '" \o format_str \o "')"

RECURSIVE _convert_to_char(_)
\* The while loop: the first TO_CHAR( is rewritten and the search starts over; an
\* unclosed call, or one with fewer than two arguments, ends the loop.
_convert_to_char(s) ==
    LET start == SearchCall(s, "TO_CHAR")
        paren == CallAt(s, start, "TO_CHAR")
        end == MatchingParenEnd(s, paren)
        args == _split_function_args(Strip(Slice(s, paren + 1, end - 1)))
    IN IF start = 0 THEN s
       ELSE IF end = 0 THEN s
       ELSE IF Len(args) < 2 THEN s
       ELSE _convert_to_char(Slice(s, 1, start) \o ToCharReplacement(args) \o From(s, end))

\* re.match(r'-12\s*\*\s*(\d+)|(\d+)\s*\*\s*-12', months_expr): group(1) or group(2),
\* "" when there is no match.
YearMatch(m) ==
    LET a1 == SkipSpace(m, 4)
        d1 == SkipSpace(m, a1 + 1)
        e2 == SkipDigits(m, 1)
        a2 == SkipSpace(m, e2)
        b2 == SkipSpace(m, a2 + 1)
    IN IF LitAt(m, 1, "-12") /\ LitAt(m, a1, "*") /\ SkipDigits(m, d1) > d1
       THEN Slice(m, d1, SkipDigits(m, d1))
       ELSE IF e2 > 1 /\ LitAt(m, a2, "*") /\ LitAt(m, b2, "-12")
       THEN Slice(m, 1, e2)
       ELSE ""

\* The replacement _convert_add_months builds from the two split arguments.
AddMonthsReplacement(args) ==
    LET date_expr == Strip(args[1])
        months_expr == Strip(args[2])
    IN IF YearMatch(months_expr) # ""
       THEN "DATEADD(YEAR, -" \o YearMatch(months_expr) \o ", " \o date_expr \o ")"
       ELSE "DATEADD(MONTH, " \o months_expr \o ", " \o date_expr \o ")"

RECURSIVE _convert_add_months(_)
\* The while loop: the first ADD_MONTHS( is rewritten and the search starts over; an
\* unclosed call, or one without exactly two arguments, ends the loop.
_convert_add_months(s) ==
    LET start == SearchCall(s, "ADD_MONTHS")
        paren == CallAt(s, start, "ADD_MONTHS")
        end == MatchingParenEnd(s, paren)
        args == _split_function_args(Strip(Slice(s, paren + 1, end - 1)))
    IN IF start = 0 THEN s
       ELSE IF end = 0 THEN s
       ELSE IF Len(args) # 2 THEN s
       ELSE _convert_add_months(
                Slice(s, 1, start) \o AddMonthsReplacement(args) \o From(s, end))

\* re.sub(r'/\*.*?\*/', '', query, flags=re.DOTALL): a comment ends at the first */.
BlockCommentAt(s, i) ==
    LET e == First({j \in (i + 2)..Len(s) : LitAt(s, j, "*/")})
    IN IF LitAt(s, i, "/*") /\ e > 0 THEN e + 2 ELSE 0

\* re.sub(r'--.*?$', '', query, flags=re.MULTILINE): a comment ends before the next
\* line break, or at the end of the text.
LineCommentAt(s, i) ==
    LET e == IndexOf(s, "\n", i + 2)
    IN IF ~LitAt(s, i, "--") THEN 0 ELSE IF e > 0 THEN e ELSE Len(s) + 1

\* query_cleaned of the forward _is_select_query.
query_cleaned(s) ==
    LET a == ReSub(s, [i \in Idx(s) |-> BlockCommentAt(s, i)], [i \in Idx(s) |-> ""])
    IN ReSub(a, [i \in Idx(a) |-> LineCommentAt(a, i)], [i \in Idx(a) |-> ""])

\* OracleToAzureConverter._is_select_query.
_is_select_query(s) ==
    \/ StartsWith(Upper(Strip(query_cleaned(s))), "SELECT")
    \/ StartsWith(Upper(Strip(query_cleaned(s))), "WITH")

\* \bWORD\b at index i.
WordAt(s, i, w) ==
    IF WordBoundary(s, i) /\ LitAtCI(s, i, w) /\ WordBoundary(s, i + Len(w))
    THEN i + Len(w) ELSE 0

_CONNECT_BY_PATTERN(s, i) == WordPairAt(s, i, "CONNECT", "BY")

_ROWNUM_PATTERN(s, i) == WordAt(s, i, "ROWNUM")

_ORDER_BY_PATTERN(s, i) == WordPairAt(s, i, "ORDER", "BY")

\* \+\s*\d+\s*[/]\s*24|\+\s*INTERVAL at index i.
_DATE_ARITHMETIC_PATTERN(s, i) ==
    LET a == SkipSpace(s, i + 1)
        e == SkipDigits(s, a)
        slash == SkipSpace(s, e)
        n == SkipSpace(s, slash + 1)
    IN IF ~LitAt(s, i, "+") THEN 0
       ELSE IF e > a /\ LitAt(s, slash, "/") /\ LitAt(s, n, "24") THEN n + 2
       ELSE IF LitAtCI(s, a, "INTERVAL") THEN a + 8
       ELSE 0

\* \(\s*SELECT\s+.*?\bWHERE\b.*?\) with DOTALL at index i: whether it matches.
_SUBQUERY_PATTERN(s, i) ==
    LET sel == SkipSpace(s, i + 1)
    IN IF /\ LitAt(s, i, "(") /\ LitAtCI(s, sel, "SELECT")
          /\ SkipSpace(s, sel + 6) > sel + 6
          /\ \E w \in (sel + 7)..Len(s) :
                /\ WordAt(s, w, "WHERE") > 0
                /\ IndexOf(s, ")", w + 5) > 0
       THEN 1 ELSE 0

_PIVOT_PATTERN(s, i) == CallAt(s, i, "PIVOT")

\* \bKEEP\s*\(\s*DENSE_RANK\s+(FIRST|LAST) at index i.
_KEEP_DENSE_RANK_PATTERN(s, i) ==
    LET p == CallAt(s, i, "KEEP")
        d == SkipSpace(s, p + 1)
        f == SkipSpace(s, d + 10)
    IN IF /\ p > 0 /\ LitAtCI(s, d, "DENSE_RANK") /\ f > d + 10
          /\ (LitAtCI(s, f, "FIRST") \/ LitAtCI(s, f, "LAST"))
       THEN f + 4 ELSE 0

\* \([^)]+,\s*[^)]+\)\s+IN\s*\( at index i.
_TUPLE_IN_PATTERN(s, i) ==
    LET c == IndexOf(s, ")", i + 1)
        n == SkipSpace(s, c + 1)
        p == SkipSpace(s, n + 2)
    IN IF /\ LitAt(s, i, "(") /\ c > 0
          /\ \E m \in (i + 2)..(c - 2) : Ch(s, m) = ","
          /\ n > c + 1 /\ LitAtCI(s, n, "IN") /\ LitAt(s, p, "(")
       THEN p + 1 ELSE 0

_REGEXP_SUBSTR_PATTERN(s, i) == CallAt(s, i, "REGEXP_SUBSTR")

_has_rownum_with_order_by(s) ==
    /\ ReSearch(s, [i \in Idx(s) |-> _ROWNUM_PATTERN(s, i)])
    /\ ReSearch(s, [i \in Idx(s) |-> _ORDER_BY_PATTERN(s, i)])

_has_correlated_subquery(s) == ReSearch(s, [i \in Idx(s) |-> _SUBQUERY_PATTERN(s, i)])

(***************************************************************************)
(* Reverse stages (AzureToOracleConverter).                                *)
(***************************************************************************)

\* AzureToOracleConverter._is_select_query: no comment is removed.
reverse_is_select_query(s) ==
    \/ StartsWith(Upper(Strip(s)), "SELECT")
    \/ StartsWith(Upper(Strip(s)), "WITH")

\* The pattern \bSELECT\s+TOP\s+(\d+)\s+ at index i: the bounds of group 1 and the
\* index after the match, all 0 when there is no match.
TopMatch(s, i) ==
    LET t == SkipSpace(s, i + 6)
        d == SkipSpace(s, t + 3)
        e == SkipDigits(s, d)
        f == SkipSpace(s, e)
    IN IF /\ WordBoundary(s, i) /\ LitAtCI(s, i, "SELECT")
          /\ t > i + 6 /\ LitAtCI(s, t, "TOP")
          /\ d > t + 3 /\ e > d /\ f > e
       THEN [digits |-> d, sep |-> e, end |-> f]
       ELSE [digits |-> 0, sep |-> 0, end |-> 0]

\* Whether _convert_top_to_rownum finds its pattern.
HasTop(s) == \E i \in Idx(s) : TopMatch(s, i).end > 0

\* `limit`: group 1 of the first match, as text.
TopLimit(s) ==
    LET m == TopMatch(s, First({i \in Idx(s) : TopMatch(s, i).end > 0}))
    IN Slice(s, m.digits, m.sep)

_convert_top_to_rownum(s) ==
    LET limit == TopLimit(s)
        removed == ReSub(s, [i \in Idx(s) |-> TopMatch(s, i).end],
                            [i \in Idx(s) |-> "SELECT "])
        where == [i \in Idx(removed) |-> WordAt(removed, i, "WHERE")]
        order == [i \in Idx(removed) |-> _ORDER_BY_PATTERN(removed, i)]
    IN IF ~HasTop(s) THEN s
       ELSE IF ReSearch(removed, where)
       THEN ReSubFirst(removed, where,
                       [i \in Idx(removed) |-> "WHERE ROWNUM <= " \o limit \o " AND"])
       ELSE IF ReSearch(removed, order)
       THEN ReSubFirst(removed, order,
                       [i \in Idx(removed) |-> "WHERE ROWNUM <= " \o limit \o " ORDER BY"])
       ELSE RStrip(removed) \o "\nWHERE ROWNUM <= " \o limit

\* The condition of the warning _convert_top_to_rownum appends.
TopOrderByWarns(s) ==
    /\ HasTop(s)
    /\ ReSearch(_convert_top_to_rownum(s),
                [i \in Idx(_convert_top_to_rownum(s)) |->
                    _ORDER_BY_PATTERN(_convert_top_to_rownum(s), i)])

\* \bGETDATE\s*\(\s*\) at index i.
GetdateAt(s, i) ==
    LET p == CallAt(s, i, "GETDATE")
        c == SkipSpace(s, p + 1)
    IN IF p > 0 /\ LitAt(s, c, ")") THEN c + 1 ELSE 0

\* _convert_getdate with a pattern that never matches.
KeepGetdate(s) == s

_convert_getdate(s) ==
    ReSub(s, [i \in Idx(s) |-> GetdateAt(s, i)], [i \in Idx(s) |-> "SYSDATE"])

\* \bISNULL\s*\(((?:[^()]|\([^()]*\))*)\) at index i.
IsnullAt(s, i) ==
    LET p == CallAt(s, i, "ISNULL")
        c == OneLevelClose(s, p + 1)
    IN IF p > 0 /\ c > 0 THEN c + 1 ELSE 0

\* A single re.sub: every match becomes NVL(group 1).
_convert_isnull(s) ==
    ReSub(s, [i \in Idx(s) |-> IsnullAt(s, i)],
             [i \in Idx(s) |->
                "NVL(" \o Slice(s, CallAt(s, i, "ISNULL") + 1, IsnullAt(s, i) - 1) \o ")"])

\* The condition `'+' in query and "'" in query`.
LooksLikeConcat(s) == HasAny(s, {"+"}) /\ HasAny(s, {"'"})

reverse_convert_string_concatenation(s) ==
    IF LooksLikeConcat(s) THEN Replace(s, " + ", " || ") ELSE s

\* \bCAST\s*\(([^)]+)\s+AS\s+DATE\s*\) at index i: the index of AS and of the closing
\* parenthesis, 0 when there is no match.
CastMatch(s, i) ==
    LET p == CallAt(s, i, "CAST")
        c == IndexOf(s, ")", p + 1)
        a == First({k \in (p + 3)..(c - 1) :
                      /\ IsSpace(Ch(s, k - 1)) /\ LitAtCI(s, k, "AS")
                      /\ SkipSpace(s, k + 2) > k + 2
                      /\ LitAtCI(s, SkipSpace(s, k + 2), "DATE")
                      /\ SkipSpace(s, SkipSpace(s, k + 2) + 4) = c})
    IN IF p > 0 /\ c > 0 /\ a > 0 THEN [as |-> a, close |-> c]
       ELSE [as |-> 0, close |-> 0]

CastAt(s, i) == IF CastMatch(s, i).close > 0 THEN CastMatch(s, i).close + 1 ELSE 0

_convert_cast_date(s) ==
    ReSub(s, [i \in Idx(s) |-> CastAt(s, i)],
             [i \in Idx(s) |->
                "TRUNC(" \o Strip(Slice(s, CallAt(s, i, "CAST") + 1, CastMatch(s, i).as))
                    \o ")"])

\* The condition of the warning _convert_case_to_decode appends: \bCASE\s+WHEN\b.
HasCaseWhen(s) == ReSearch(s, [i \in Idx(s) |-> WordPairAt(s, i, "CASE", "WHEN")])

\* _convert_case_to_decode with a rewrite of the CASE keyword in place.
RestoreDecode(s) ==
    ReSub(s, [i \in Idx(s) |-> WordPairAt(s, i, "CASE", "WHEN")], [i \in Idx(s) |-> "DECODE("])

\* The stage returns its argument: the DECODE pattern it defines is never applied.
_convert_case_to_decode(s) == s

(***************************************************************************)
(* Warnings.                                                               *)
(***************************************************************************)

\* ConversionWarning(message, warning_type=...); line_number is never set.
ConversionWarning(message, warning_type) ==
    [message |-> message, warning_type |-> warning_type]

\* `if cond: self.warnings.append(ConversionWarning(message, warning_type))`.
Warn(cond, message, warning_type) ==
    IF cond THEN <<ConversionWarning(message, warning_type)>> ELSE <<>>

InvalidInputMessage == "Invalid input: Query must be a non-empty string."

NotSelectMessage ==
    "Query does not appear to be a SELECT statement. Only SELECT queries are supported."

ReverseNotSelectMessage == "Query does not appear to be a SELECT statement."

RownumOrderByMessage ==
    "ROWNUM used with ORDER BY. Results may differ - consider ROW_NUMBER() OVER(ORDER BY ...) instead."

TopOrderByMessage ==
    "TOP converted to ROWNUM with ORDER BY. Results may differ - consider using a subquery."

ReverseConcatMessage ==
    "String concatenation operator (+) converted to (||). Verify numeric additions are not affected."

CaseWhenMessage ==
    "CASE WHEN statement found. Consider converting to DECODE manually for better Oracle compatibility."

\* What _detect_unsupported_features appends for the query s, in the code's order.
_detect_unsupported_features(s) ==
    Warn(ReSearch(s, [i \in Idx(s) |-> _CONNECT_BY_PATTERN(s, i)]),
         "CONNECT BY hierarchical query detected. SQL Server requires recursive CTE with anchor + recursive member using UNION ALL.",
         "CONNECT_BY")
    \o Warn(_has_rownum_with_order_by(s), RownumOrderByMessage, "ROWNUM_ORDER_BY")
    \o Warn(ReSearch(s, [i \in Idx(s) |-> _DATE_ARITHMETIC_PATTERN(s, i)]),
            "Complex date arithmetic detected. Verify DATEADD() conversion is semantically correct.",
            "DATE_ARITHMETIC")
    \o Warn(_has_correlated_subquery(s),
            "Possible correlated subquery detected. Verify query logic after conversion.",
            "CORRELATED_SUBQUERY")
    \o Warn(ReSearch(s, [i \in Idx(s) |-> _PIVOT_PATTERN(s, i)]),
            "Oracle PIVOT syntax detected. SQL Server PIVOT uses different syntax. Consider conditional aggregation instead.",
            "PIVOT")
    \o Warn(ReSearch(s, [i \in Idx(s) |-> _KEEP_DENSE_RANK_PATTERN(s, i)]),
            "Oracle KEEP (DENSE_RANK FIRST/LAST) detected. SQL Server requires ROW_NUMBER() with partitioning instead. Manual rewrite needed.",
            "KEEP_DENSE_RANK")
    \o Warn(ReSearch(s, [i \in Idx(s) |-> _TUPLE_IN_PATTERN(s, i)]),
            "Tuple comparison in IN clause detected: (col1, col2) IN (...). SQL Server doesn't support this. Rewrite as: EXISTS (SELECT 1 FROM ... WHERE col1=... AND col2=...)",
            "TUPLE_IN")
    \o Warn(ReSearch(s, [i \in Idx(s) |-> _REGEXP_SUBSTR_PATTERN(s, i)]),
            "REGEXP_SUBSTR detected. SQL Server 2025+ supports this natively; older versions need SUBSTRING+CHARINDEX fallback.",
            "REGEXP_SUBSTR")

\* What each of the stages that warn appends for the text s it is given.
OptimizerHintsWarnings(s) ==
    Warn(ReSearch(s, [i \in Idx(s) |-> _OPTIMIZER_HINTS_PATTERN(s, i)]),
         "Oracle optimizer hints (/*+ ... */) have been removed. Azure SQL uses query hints with different syntax. Review execution plans.",
         "OPTIMIZER_HINTS")

UsingClauseWarnings(s) ==
    Warn(ReSearch(s, [i \in Idx(s) |-> _USING_CLAUSE_PATTERN(s, i)]),
         "USING clause detected. Converted to ON clause - verify table aliases are correct.",
         "USING_CLAUSE")

MonthsBetweenWarnings(s) ==
    Warn(ReSearch(s, [i \in Idx(s) |-> _MONTHS_BETWEEN_PATTERN(s, i)]),
         "MONTHS_BETWEEN converted to DATEDIFF(MONTH, ...). Note: Oracle returns fractional months, SQL Server returns integer months. Results may differ if fractional precision is required.",
         "MONTHS_BETWEEN")

FetchWithTiesWarnings(s) ==
    Warn(ReSearch(s, [i \in Idx(s) |-> _FETCH_WITH_TIES_PATTERN(s, i)]),
         "FETCH FIRST n ROWS WITH TIES detected. In SQL Server, use TOP (n) WITH TIES in the SELECT clause instead. OFFSET/FETCH does not support WITH TIES in SQL Server.",
         "FETCH_WITH_TIES")

\* The TRIM rewrite appending no warning.
TrimSilent(s) == <<>>

TrimWarnings(s) ==
    Warn(ReSearch(s, [i \in Idx(s) |-> _TRIM_PATTERN(s, i)]),
         "TRIM() converted to LTRIM(RTRIM(...)) for broad compatibility (SQL Server 2016 and earlier).",
         "TRIM")

\* (The INITCAP message is cut after its first sentence.)
InitcapWarnings(s) ==
    Warn(ReSearch(s, [i \in Idx(s) |-> _INITCAP_PATTERN(s, i)]),
         "INITCAP converted to single-word approximation: UPPER(LEFT(col,1)) + LOWER(SUBSTRING(col,2,LEN(col))).",
         "INITCAP")

\* The warnings replace_listagg appends: one for each match that has DISTINCT.
ListaggWarnings(s) ==
    LET ms == ReMatches(s, [i \in Idx(s) |-> _LISTAGG_PATTERN(s, i)])
        F[k \in 0..Len(ms)] ==
            IF k = 0 THEN <<>>
            ELSE F[k - 1] \o
                 Warn(has_distinct(ListaggMatch(s, ms[k])),
                      "LISTAGG(DISTINCT " \o col_name(ListaggMatch(s, ms[k]))
                          \o ") converted to correlated subquery pattern. "
                          \o "MANUAL FIX REQUIRED: Replace <source_table> with actual table/CTE name and add WHERE correlation. "
                          \o "Example for grouped query: (SELECT STRING_AGG(x.dx3, ',') FROM (SELECT DISTINCT rc2.dx3 FROM recent_claims AS rc2 WHERE rc2.member_id = rc.member_id) AS x)",
                      "LISTAGG_DISTINCT")
    IN F[Len(ms)]

\* The warnings replace_regexp_like appends: one for each match.
RegexpLikeWarnings(s) ==
    LET ms == ReMatches(s, [i \in Idx(s) |-> _REGEXP_LIKE_PATTERN(s, i)])
    IN [k \in 1..Len(ms) |->
          ConversionWarning(
              "REGEXP_LIKE(" \o RegexpLikeMatch(s, ms[k]).column \o ", '"
                  \o RegexpLikeMatch(s, ms[k]).pattern \o "') detected. "
                  \o "SQL Server 2025 (17.x) / Azure SQL with compatibility level >= 170 supports native REGEXP_LIKE. "
                  \o "For older versions, replace with LIKE pattern or PATINDEX. "
                  \o "Current conversion uses native REGEXP_LIKE - ensure your SQL Server version supports it.",
              "REGEXP_LIKE")]

(***************************************************************************)
(* convert(): one action per step, in the order the code runs them.  pc     *)
(* names the step that runs next.                                          *)
(***************************************************************************)

\* A rewrite stage: `converted = self.<from>(converted)`, with the warnings ws the
\* stage appends, and control passing to the step `to`.
Step(d, from, to, text, ws) ==
    /\ pc = from
    /\ dir = d
    /\ pc' = to
    /\ converted' = text
    /\ warnings' = warnings \o ws
    /\ stages' = Append(stages, from)
    /\ UNCHANGED <<dir, query, result, original>>
    /\ UNCHANGED <<splitVars, pairVars, loopVars, guiVars>>

\* `return value, self.warnings` with the warnings ws appended just before.
Return(value, ws) ==
    /\ pc' = "done"
    /\ warnings' = ws
    /\ result' = [text |-> value, warnings |-> ws]
    /\ UNCHANGED <<dir, query, converted, original, stages>>
    /\ UNCHANGED <<splitVars, pairVars, loopVars, guiVars>>

\* OracleToAzureConverter.convert, input validation.
ForwardValidate ==
    /\ pc = "convert"
    /\ dir = "forward"
    /\ IF ~Truthy(query) \/ ~IsString(query)
       THEN Return(IF Truthy(query) THEN query ELSE Str(""),
                   <<ConversionWarning(InvalidInputMessage, "GENERAL")>>)
       ELSE /\ pc' = "_is_select_query"
            /\ warnings' = <<>>
            /\ UNCHANGED <<dir, query, converted, result, original, stages>>
            /\ UNCHANGED <<splitVars, pairVars, loopVars, guiVars>>

\* OracleToAzureConverter.convert, the SELECT check.
ForwardCheckSelect ==
    /\ pc = "_is_select_query"
    /\ dir = "forward"
    /\ IF ~_is_select_query(query.str)
       THEN Return(query, Append(warnings, ConversionWarning(NotSelectMessage, "GENERAL")))
       ELSE /\ pc' = "_detect_unsupported_features"
            /\ UNCHANGED <<dir, query, converted, warnings, result, original, stages>>
            /\ UNCHANGED <<splitVars, pairVars, loopVars, guiVars>>

\* self._detect_unsupported_features(oracle_query); converted = oracle_query.
\* The detectors reading the text after the row-limit rewrite instead of the input.
ForwardDetectRewritten ==
    /\ pc = "_detect_unsupported_features"
    /\ dir = "forward"
    /\ pc' = "_decode_html_entities"
    /\ warnings' = warnings \o _detect_unsupported_features(_convert_rownum_to_top(query.str))
    /\ converted' = query.str
    /\ UNCHANGED <<dir, query, result, original, stages>>
    /\ UNCHANGED <<splitVars, pairVars, loopVars, guiVars>>

ForwardDetect ==
    /\ pc = "_detect_unsupported_features"
    /\ dir = "forward"
    /\ pc' = "_decode_html_entities"
    /\ warnings' = warnings \o _detect_unsupported_features(query.str)
    /\ converted' = query.str
    /\ UNCHANGED <<dir, query, result, original, stages>>
    /\ UNCHANGED <<splitVars, pairVars, loopVars, guiVars>>

DecodeHtmlEntities ==
    Step("forward", "_decode_html_entities", "_remove_optimizer_hints",
         _decode_html_entities(converted), <<>>)

RemoveOptimizerHints ==
    Step("forward", "_remove_optimizer_hints", "_convert_date_literals",
         _remove_optimizer_hints(converted),
         OptimizerHintsWarnings(converted))

ConvertDateLiterals ==
    Step("forward", "_convert_date_literals", "_convert_using_clause",
         _convert_date_literals(converted), <<>>)

ConvertUsingClause ==
    Step("forward", "_convert_using_clause", "_convert_months_between",
         _convert_using_clause(converted),
         UsingClauseWarnings(converted))

ConvertMonthsBetween ==
    Step("forward", "_convert_months_between", "_convert_fetch_with_ties",
         _convert_months_between(converted),
         MonthsBetweenWarnings(converted))

ConvertFetchWithTies ==
    Step("forward", "_convert_fetch_with_ties", "_convert_length",
         _convert_fetch_with_ties(converted),
         FetchWithTiesWarnings(converted))

ConvertLength ==
    Step("forward", "_convert_length", "_convert_instr", _convert_length(converted), <<>>)

ConvertInstr ==
    Step("forward", "_convert_instr", "_convert_ceil", _convert_instr(converted), <<>>)

ConvertCeil ==
    Step("forward", "_convert_ceil", "_convert_trim", _convert_ceil(converted), <<>>)

ConvertTrim ==
    Step("forward", "_convert_trim", "_convert_initcap",
         _convert_trim(converted),
         TrimWarnings(converted))

ConvertInitcap ==
    Step("forward", "_convert_initcap", "_convert_listagg",
         _convert_initcap(converted),
         InitcapWarnings(converted))

ConvertListagg ==
    Step("forward", "_convert_listagg", "_convert_regexp_like",
         _convert_listagg(converted), ListaggWarnings(converted))

ConvertRegexpLike ==
    Step("forward", "_convert_regexp_like", "_convert_nvl",
         _convert_regexp_like(converted), RegexpLikeWarnings(converted))

ConvertNvl ==
    Step("forward", "_convert_nvl", "_convert_decode", _convert_nvl(converted), <<>>)

ConvertDecode ==
    Step("forward", "_convert_decode", "_convert_sysdate", _convert_decode(converted), <<>>)

ConvertSysdate ==
    Step("forward", "_convert_sysdate", "_convert_string_concatenation",
         _convert_sysdate(converted), <<>>)

ConvertStringConcatenation ==
    Step("forward", "_convert_string_concatenation", "_convert_date_trunc",
         _convert_string_concatenation(converted), <<>>)

ConvertDateTrunc ==
    Step("forward", "_convert_date_trunc", "_convert_substr",
         _convert_date_trunc(converted), <<>>)

ConvertSubstr ==
    Step("forward", "_convert_substr", "_convert_to_char", _convert_substr(converted), <<>>)

ConvertToChar ==
    Step("forward", "_convert_to_char", "_convert_add_months",
         _convert_to_char(converted), <<>>)

ConvertAddMonths ==
    Step("forward", "_convert_add_months", "_remove_from_dual",
         _convert_add_months(converted), <<>>)

RemoveFromDual ==
    Step("forward", "_remove_from_dual", "_convert_rownum_to_top",
         _remove_from_dual(converted), <<>>)

ConvertRownumToTop ==
    Step("forward", "_convert_rownum_to_top", "_convert_fetch_first",
         _convert_rownum_to_top(converted), <<>>)

ConvertFetchFirst ==
    Step("forward", "_convert_fetch_first", "return", _convert_fetch_first(converted), <<>>)

\* return converted, self.warnings
ForwardReturn ==
    /\ pc = "return"
    /\ dir = "forward"
    /\ Return(Str(converted), warnings)

\* AzureToOracleConverter.convert up to `converted = azure_query`: query.strip() raises
\* AttributeError for a query that is not a string.
ReverseCheckSelect ==
    /\ pc = "convert"
    /\ dir = "reverse"
    /\ IF ~IsString(query)
       THEN /\ pc' = "done"
            /\ result' = Raised
            /\ warnings' = <<>>
            /\ UNCHANGED <<dir, query, converted, original, stages>>
            /\ UNCHANGED <<splitVars, pairVars, loopVars, guiVars>>
       ELSE IF ~reverse_is_select_query(query.str)
       THEN Return(query, <<ConversionWarning(ReverseNotSelectMessage, "GENERAL")>>)
       ELSE /\ pc' = "_convert_top_to_rownum"
            /\ warnings' = <<>>
            /\ converted' = query.str
            /\ UNCHANGED <<dir, query, result, original, stages>>
            /\ UNCHANGED <<splitVars, pairVars, loopVars, guiVars>>

ConvertTopToRownum ==
    Step("reverse", "_convert_top_to_rownum", "_convert_getdate",
         _convert_top_to_rownum(converted),
         Warn(TopOrderByWarns(converted), TopOrderByMessage, "GENERAL"))

ConvertGetdate ==
    Step("reverse", "_convert_getdate", "_convert_isnull", _convert_getdate(converted), <<>>)

ConvertIsnull ==
    Step("reverse", "_convert_isnull", "_convert_string_concatenation",
         _convert_isnull(converted), <<>>)

ReverseConvertStringConcatenation ==
    Step("reverse", "_convert_string_concatenation", "_convert_cast_date",
         reverse_convert_string_concatenation(converted),
         Warn(LooksLikeConcat(converted), ReverseConcatMessage, "GENERAL"))

ConvertCastDate ==
    Step("reverse", "_convert_cast_date", "_convert_case_to_decode",
         _convert_cast_date(converted), <<>>)

ConvertCaseToDecode ==
    Step("reverse", "_convert_case_to_decode", "return",
         _convert_case_to_decode(converted),
         Warn(HasCaseWhen(converted), CaseWhenMessage, "GENERAL"))

\* return converted, self.warnings
ReverseReturn ==
    /\ pc = "return"
    /\ dir = "reverse"
    /\ Return(Str(converted), warnings)

\* test_round_trip: the text a forward call returned is handed to
\* convert_azure_select_to_oracle, which constructs a new converter.
RoundTrip ==
    /\ pc = "done"
    /\ dir = "forward"
    /\ original = None
    /\ IsString(query)
    /\ pc' = "convert"
    /\ dir' = "reverse"
    /\ original' = query
    /\ query' = result.text
    /\ converted' = ""
    /\ warnings' = <<>>
    /\ result' = Pending
    /\ stages' = <<>>
    /\ UNCHANGED <<splitVars, pairVars, loopVars, guiVars>>

(***************************************************************************)
(* The queries the calls are made with.                                    *)
(***************************************************************************)

\* NVL calls are nested up to this depth.
MaxNest == 3

\* DECODE calls have up to this many arguments.
MaxArgs == 6

\* ROWNUM bounds and TOP limits range over 0 .. MaxLimit.
MaxLimit == 3

\* NVL nested d deep in its first argument, NVL(NVL(a, b), c), or in its second,
\* NVL(a, NVL(b, c)).
NvlLeft[d \in 1..(MaxNest + 1)] ==
    IF d = 1 THEN "NVL(a, b)" ELSE "NVL(" \o NvlLeft[d - 1] \o ", c)"

NvlRight[d \in 1..(MaxNest + 1)] ==
    IF d = 1 THEN "NVL(a, b)" ELSE "NVL(c, " \o NvlRight[d - 1] \o ")"

NvlQueries ==
    {"SELECT " \o NvlLeft[d] \o " FROM t" : d \in 1..MaxNest}
    \cup {"SELECT " \o NvlRight[d] \o " FROM t" : d \in 1..MaxNest}
    \cup {"SELECT NVL(UPPER(name), 'n/a') FROM t", "select nvl (a, 0) from t"}

\* The first n of a DECODE call's arguments after the expression e.
DecodeArgs[n \in 0..(MaxArgs + 1)] ==
    IF n = 0 THEN ""
    ELSE DecodeArgs[n - 1] \o ", "
         \o (IF n % 2 = 1 THEN IntToStr((n + 1) \div 2)
             ELSE "'" \o Ch("abcdefgh", n \div 2) \o "'")

\* The expressions a DECODE call dispatches on: a column, a call, a call in a call,
\* and a call an earlier stage turns into a call in a call.
DecodeExprs == {"x", "UPPER(x)", "ABS(ROUND(x))", "TRIM(x)"}

DecodeQueries ==
    {"SELECT DECODE(" \o e \o DecodeArgs[n - 1] \o ") FROM t" :
        e \in DecodeExprs, n \in 1..MaxArgs}
    \cup {"SELECT DECODE(x, 1, 'a,b', 'c') FROM t",
          "SELECT DECODE(x, ')', 'c', 'o') FROM t",
          "select decode (x, 1, 'a') from t",
          "SELECT DECODE(a, 1, 'x', DECODE(b, 2, 'y')) FROM t",
          "SELECT DECODE(a, 1, DECODE(b, 2, 'y', 'z'), 'w') FROM t",
          "SELECT DECODE(a, 1, 'x'), DECODE(b, 2, 'y') FROM t"}

RownumTails == {"", " AND dept = 10", " ORDER BY name"}

RownumQueries ==
    {"SELECT * FROM t WHERE ROWNUM " \o op \o " " \o IntToStr(n) \o tail :
        op \in {"<=", "<"}, n \in 0..MaxLimit, tail \in RownumTails}
    \cup {"select name from t where rownum<=2",
          "/* top rows */ SELECT * FROM t WHERE ROWNUM <= 2",
          "WITH c AS (SELECT a FROM t) SELECT a FROM c WHERE ROWNUM < 3",
          "SELECT * FROM t WHERE x = 1 AND ROWNUM <= 2",
          "SELECT * FROM t WHERE x = 1 AND ROWNUM <= 2 AND y = 2",
          "SELECT * FROM t WHERE ROWNUM &lt;= 2",
          "SELECT * FROM t ORDER BY rownum"}

DualQueries ==
    {"SELECT 1 FROM DUAL", "select sysdate from dual", "Select NVL(a, 0) From Dual",
     "SELECT SYSDATE FROM\nDUAL", "SELECT 1 FROM  DUAL WHERE ROWNUM <= 1",
     "SELECT DECODE(1, 1, 'a') FROM dual ORDER BY 1", "SELECT 1 FROM DUAL_LOG"}

\* The queries of the round trip: a two-argument NVL call, SYSDATE references and one
\* WHERE ROWNUM <= N bound.
RoundTripQueries ==
    {"SELECT " \o sel \o " FROM employees WHERE ROWNUM <= " \o IntToStr(n) :
        sel \in {"NVL(name, 'Unknown'), SYSDATE", "SYSDATE, NVL(a, 0), sysdate"},
        n \in 0..MaxLimit}

\* TRUNC calls nested d deep, each around an expression of the one inside.
TruncNest[d \in 1..(MaxNest + 1)] ==
    IF d = 1 THEN "TRUNC(d)" ELSE "TRUNC(" \o TruncNest[d - 1] \o " + 1)"

\* TRUNC calls: nested in each other, side by side, around and inside other calls,
\* around SYSDATE, around literals with parentheses, and a name that only begins
\* like TRUNC.
TruncQueries ==
    {"SELECT " \o TruncNest[d] \o " FROM t" : d \in 1..MaxNest}
    \cup {"SELECT TRUNC(d), trunc (e) FROM t WHERE TRUNC(NVL(a, TRUNC(SYSDATE))) > c",
          "SELECT TRUNC( TO_DATE(d, '(x)') ) FROM DUAL",
          "SELECT ('(' || TRUNC(TO_DATE(s, ')'))) FROM t",
          "SELECT TRUNC(ADD_MONTHS(TRUNC(d), 1)), TRUNCATE(e) FROM t",
          "SELECT TRUNC(d, 'MM') FROM t",
          "SELECT TRUNC(d), TRUNC(x, 2) FROM t"}

\* INSTR and MONTHS_BETWEEN calls whose operands are names, calls and literals, with
\* commas and parentheses inside the operands.
ArgumentSwapQueries ==
    {"SELECT INSTR(UPPER(name), 'a') FROM t",
     "SELECT INSTR(SUBSTR(a, 1, 2), 'x') FROM t",
     "SELECT INSTR(a, UPPER('x')) FROM t",
     "SELECT INSTR('a,b', 'x') FROM t",
     "SELECT MONTHS_BETWEEN(d, ADD_MONTHS(e, 1)) FROM t",
     "SELECT MONTHS_BETWEEN(TO_DATE(a, 'x'), d) FROM t"}

\* The month offsets of the ADD_MONTHS calls: the whole-years idiom in its two forms,
\* offsets that only begin like it, and other offsets.
MonthOffsets ==
    {"-12 * " \o IntToStr(n) : n \in 1..MaxLimit}
    \cup {IntToStr(n) \o " * -12" : n \in 1..MaxLimit}
    \cup {"-12*2", "6", "-6", "n", "12 * 2", "-12 * n", "-12 * 2 + 1", "2 * -120",
          "-12 * 2 * x", "NVL(m, 0)"}

AddMonthsQueries == {"SELECT ADD_MONTHS(d, " \o m \o ") FROM t" : m \in MonthOffsets}

\* TO_CHAR and ADD_MONTHS calls the stages cannot parse (too few or too many arguments,
\* no closing parenthesis) next to calls they can, before them and after them.
SkippedCallQueries ==
    {"SELECT ADD_MONTHS(d), ADD_MONTHS(e, 1) FROM t",
     "SELECT ADD_MONTHS(e, 1), ADD_MONTHS(d) FROM t",
     "SELECT ADD_MONTHS(e, 1), ADD_MONTHS(d, 1, 2) FROM t",
     "SELECT TO_CHAR(a), TO_CHAR(d, 'MM') FROM t",
     "SELECT TO_CHAR(d, 'MM'), TO_CHAR(a) FROM t",
     "SELECT TO_CHAR(d, 'MM'), TO_CHAR(a FROM t"}

\* One query or more for each of the other stages and detectors.
OtherQueries ==
    {"SELECT /*+ INDEX(e i) */ LENGTH(name), CEIL(x) FROM e",
     "SELECT INSTR(name, 'a'), INITCAP(name), a || b FROM t WHERE d > DATE '2025-01-01'",
     "SELECT * FROM a JOIN b USING (id) WHERE MONTHS_BETWEEN(SYSDATE, d) > 1",
     "SELECT * FROM t ORDER BY a FETCH FIRST 2 ROWS WITH TIES",
     "SELECT * FROM t ORDER BY a FETCH FIRST 2 ROWS ONLY",
     "SELECT LISTAGG(DISTINCT t.a, ',') WITHIN GROUP (ORDER BY t.a) FROM t",
     "SELECT LISTAGG(a, ';') FROM t WHERE REGEXP_LIKE(a, '^x', 'i')",
     "SELECT TRUNC(SYSDATE), SUBSTR(a, 1, 2), TO_CHAR(d, 'YYYY-MM-DD') FROM t",
     "SELECT ADD_MONTHS(d, -12 * 2), ADD_MONTHS(d, 1), TO_CHAR(d, 'MM') FROM t",
     "SELECT d + 1/24 FROM t WHERE (a, b) IN (SELECT a, b FROM u WHERE c = 1)",
     "SELECT a FROM t CONNECT BY PRIOR a = b",
     "SELECT INITCAP(a) FROM t WHERE ROWNUM <= 2 ORDER BY a",
     "SELECT a FROM t WHERE a &gt; 1 AND b &lt; 2 AND c = &apos;x&apos; AND d = &quot;y&quot;",
     "SELECT a FROM t WHERE a &amp;lt; 2",
     "SELECT a FROM t WHERE c = 'x &amp; y'",
     "SELECT MAX(a) KEEP (DENSE_RANK FIRST ORDER BY b), REGEXP_SUBSTR(a, 'x') FROM t PIVOT (x)"}

\* Text that is not a SELECT statement, and text that only begins like one.
NonSelectTexts ==
    {"", "   ", "INSERT INTO t VALUES (1)", "UPDATE t SET a = NVL(b, 0)",
     "DELETE FROM t WHERE ROWNUM <= 1", "/* c */ INSERT INTO t VALUES (1)",
     "-- SELECT\nDROP TABLE t", "SELECTED NVL(a, b)", "WITHOUT NVL(a, b)",
     "SEL/**/ECT NVL(a, b) FROM t"}

\* What convert_oracle_select_to_azure is called with.
OracleInputs ==
    {Str(s) : s \in NvlQueries \cup DecodeQueries \cup RownumQueries \cup DualQueries
                    \cup RoundTripQueries \cup TruncQueries \cup ArgumentSwapQueries
                    \cup AddMonthsQueries \cup SkippedCallQueries
                    \cup OtherQueries
                    \cup NonSelectTexts}
    \cup {None, NonString}

\* What convert_azure_select_to_oracle is called with, besides forward output.
AzureQueries ==
    {"SELECT TOP " \o IntToStr(n) \o " name FROM t" \o tail :
        n \in 0..MaxLimit, tail \in {"", " WHERE a = 1", " ORDER BY name"}}
    \cup {"SELECT TOP (2) name FROM t ORDER BY name",
          "SELECT DISTINCT TOP 2 name FROM t ORDER BY name",
          "SELECT TOP 2 name FROM t WHERE a = 1 ORDER BY name",
          "SELECT TOP 2 a FROM (SELECT TOP 3 a FROM t) x",
          "SELECT name FROM t ORDER BY name",
          "SELECT ISNULL(ISNULL(a, b), c), GETDATE() FROM t",
          "SELECT CASE WHEN a = 1 THEN 'x' ELSE 'y' END FROM t",
          "select case  when a = 1 then 2 end from t",
          "SELECT CASE a WHEN 1 THEN 2 END FROM t",
          "SELECT a + 'x', CAST(d AS DATE) FROM t",
          "SELECT a + b FROM t",
          "SELECT a, 'x' FROM t",
          "SELECT a+'x' FROM t",
          "SELECT a + b FROM t -- don't sort",
          "SELECT CAST(GETDATE() AS DATE) FROM t",
          "/* c */ SELECT TOP 2 name FROM t",
          "WITH c AS (SELECT 1 AS a) SELECT TOP 1 a FROM c"}

AzureInputs ==
    {Str(s) : s \in AzureQueries \cup NonSelectTexts} \cup {None, NonString}

(***************************************************************************)
(* The conversion calls.                                                   *)
(***************************************************************************)

\* The splitter's variables while no splitter run is modelled.
SplitIdle ==
    /\ content = ""
    /\ pos = 0
    /\ parts = <<>>
    /\ current = ""
    /\ depth = 0
    /\ in_quote = FALSE
    /\ quote_char = None
    /\ split_last = "idle"

\* The variables of the concurrent invocations while none is modelled.
PairIdle ==
    /\ calls = <<>>
    /\ collectors = <<>>

\* The variables of the rewrite loops while no loop is modelled on its own.
LoopIdle ==
    /\ loop_stage = "idle"
    /\ loop_input = ""
    /\ loop_text = ""
    /\ loop_prev = None
    /\ loop_pc = "idle"

\* The variables of the editor while no editor is modelled.
GuiIdle ==
    /\ is_swapped = FALSE
    /\ title = ""
    /\ left_frame = ""
    /\ right_frame = ""
    /\ left_text = ""
    /\ right_text = ""
    /\ warnings_text = ""
    /\ swaps = 0

\* An entry function has been called with `query`; its converter is constructed.
Init ==
    /\ pc = "convert"
    /\ dir \in {"forward", "reverse"}
    /\ query \in (IF dir = "forward" THEN OracleInputs ELSE AzureInputs)
    /\ converted = ""
    /\ warnings = <<>>
    /\ result = Pending
    /\ original = None
    /\ stages = <<>>
    /\ SplitIdle
    /\ PairIdle
    /\ LoopIdle
    /\ GuiIdle

Next ==
    \/ ForwardValidate
    \/ ForwardCheckSelect
    \/ ForwardDetect
    \/ DecodeHtmlEntities
    \/ RemoveOptimizerHints
    \/ ConvertDateLiterals
    \/ ConvertUsingClause
    \/ ConvertMonthsBetween
    \/ ConvertFetchWithTies
    \/ ConvertLength
    \/ ConvertInstr
    \/ ConvertCeil
    \/ ConvertTrim
    \/ ConvertInitcap
    \/ ConvertListagg
    \/ ConvertRegexpLike
    \/ ConvertNvl
    \/ ConvertDecode
    \/ ConvertSysdate
    \/ ConvertStringConcatenation
    \/ ConvertDateTrunc
    \/ ConvertSubstr
    \/ ConvertToChar
    \/ ConvertAddMonths
    \/ RemoveFromDual
    \/ ConvertRownumToTop
    \/ ConvertFetchFirst
    \/ ForwardReturn
    \/ ReverseCheckSelect
    \/ ConvertTopToRownum
    \/ ConvertGetdate
    \/ ConvertIsnull
    \/ ReverseConvertStringConcatenation
    \/ ConvertCastDate
    \/ ConvertCaseToDecode
    \/ ReverseReturn
    \/ RoundTrip

Spec == Init /\ [][Next]_vars

(***************************************************************************)
(* The argument splitter, one character of `for char in content` per step. *)
(* _split_function_args and _split_decode_args have the same body.         *)
(***************************************************************************)

\* The splitter is run on every text of up to this many characters.
MaxLen == 4

SplitAlphabet == {"a", " ", ",", "(", ")", "'", "\""}

\* Every text of n characters over the set of characters A.
RECURSIVE TextsOfLen(_, _)
TextsOfLen(A, n) ==
    IF n = 0 THEN {""} ELSE {w \o c : w \in TextsOfLen(A, n - 1), c \in A}

SplitContents == UNION {TextsOfLen(SplitAlphabet, n) : n \in 0..MaxLen}

\* `char` of the current iteration.
SplitCurrentChar == Ch(content, pos)

\* The part of an iteration every branch shares: the loop moves to the next character.
SplitAdvance(branch) ==
    /\ pos' = pos + 1
    /\ split_last' = branch
    /\ UNCHANGED <<content, pc, dir, query, converted, warnings, result, original, stages>>
    /\ UNCHANGED <<pairVars, loopVars, guiVars>>

\* if char in ("'", '"') and not in_quote
SplitOpenQuote ==
    /\ pc = "split" /\ pos <= Len(content)
    /\ SplitCurrentChar \in {"'", "\""} /\ ~in_quote
    /\ in_quote' = TRUE
    /\ quote_char' = SplitCurrentChar
    /\ current' = current \o SplitCurrentChar
    /\ UNCHANGED <<parts, depth>>
    /\ SplitAdvance("open_quote")

\* elif char == quote_char and in_quote
SplitCloseQuote ==
    /\ pc = "split" /\ pos <= Len(content)
    /\ ~(SplitCurrentChar \in {"'", "\""} /\ ~in_quote)
    /\ in_quote /\ SplitCurrentChar = quote_char
    /\ in_quote' = FALSE
    /\ quote_char' = None
    /\ current' = current \o SplitCurrentChar
    /\ UNCHANGED <<parts, depth>>
    /\ SplitAdvance("close_quote")

\* elif char == '(' and not in_quote
SplitOpenParen ==
    /\ pc = "split" /\ pos <= Len(content)
    /\ SplitCurrentChar = "(" /\ ~in_quote
    /\ depth' = depth + 1
    /\ current' = current \o SplitCurrentChar
    /\ UNCHANGED <<parts, in_quote, quote_char>>
    /\ SplitAdvance("open_paren")

\* elif char == ')' and not in_quote
SplitCloseParen ==
    /\ pc = "split" /\ pos <= Len(content)
    /\ SplitCurrentChar = ")" /\ ~in_quote
    /\ depth' = depth - 1
    /\ current' = current \o SplitCurrentChar
    /\ UNCHANGED <<parts, in_quote, quote_char>>
    /\ SplitAdvance("close_paren")

\* The comma branch without its test of in_quote.
SplitCommaInsideQuotes ==
    /\ pc = "split" /\ pos <= Len(content)
    /\ SplitCurrentChar = "," /\ depth = 0
    /\ parts' = Append(parts, Strip(current))
    /\ current' = ""
    /\ UNCHANGED <<depth, in_quote, quote_char>>
    /\ SplitAdvance("split")

\* elif char == ',' and depth == 0 and not in_quote
SplitComma ==
    /\ pc = "split" /\ pos <= Len(content)
    /\ SplitCurrentChar = "," /\ depth = 0 /\ ~in_quote
    /\ parts' = Append(parts, Strip(current))
    /\ current' = ""
    /\ UNCHANGED <<depth, in_quote, quote_char>>
    /\ SplitAdvance("split")

\* else
SplitKeep ==
    /\ pc = "split" /\ pos <= Len(content)
    /\ ~(SplitCurrentChar \in {"'", "\""} /\ ~in_quote)
    /\ ~(in_quote /\ SplitCurrentChar = quote_char)
    /\ ~(SplitCurrentChar = "(" /\ ~in_quote)
    /\ ~(SplitCurrentChar = ")" /\ ~in_quote)
    /\ ~(SplitCurrentChar = "," /\ depth = 0 /\ ~in_quote)
    /\ current' = current \o SplitCurrentChar
    /\ UNCHANGED <<parts, depth, in_quote, quote_char>>
    /\ SplitAdvance("keep")

\* After the loop: `if current: parts.append(...)`, `return parts`.
SplitReturn ==
    /\ pc = "split" /\ pos > Len(content)
    /\ pc' = "done"
    /\ parts' = IF current # "" THEN Append(parts, Strip(current)) ELSE parts
    /\ result' = [parts |-> parts']
    /\ split_last' = "return"
    /\ UNCHANGED <<content, pos, current, depth, in_quote, quote_char>>
    /\ UNCHANGED <<dir, query, converted, warnings, original, stages>>
    /\ UNCHANGED <<pairVars, loopVars, guiVars>>

\* The splitter has been called with `content`; its locals are initialised.
InitSplit ==
    /\ pc = "split"
    /\ dir = "forward"
    /\ query = None
    /\ converted = ""
    /\ warnings = <<>>
    /\ result = Pending
    /\ original = None
    /\ stages = <<>>
    /\ content \in SplitContents
    /\ pos = 1
    /\ parts = <<>>
    /\ current = ""
    /\ depth = 0
    /\ in_quote = FALSE
    /\ quote_char = None
    /\ split_last = "start"
    /\ PairIdle
    /\ LoopIdle
    /\ GuiIdle

NextSplit ==
    \/ SplitOpenQuote
    \/ SplitCloseQuote
    \/ SplitOpenParen
    \/ SplitCloseParen
    \/ SplitComma
    \/ SplitKeep
    \/ SplitReturn

SpecSplit == InitSplit /\ [][NextSplit]_vars

(***************************************************************************)
(* Concurrent invocations of the entry functions.  Each invocation         *)
(* constructs its converter and runs convert() on it; the steps of the     *)
(* invocations interleave.                                                 *)
(***************************************************************************)

\* The number of invocations that run at the same time.
NumCalls == 2

Calls == 1..NumCalls

\* The rewrite stages of OracleToAzureConverter.convert, in the order it calls them.
ForwardStages ==
    <<"_decode_html_entities", "_remove_optimizer_hints", "_convert_date_literals",
      "_convert_using_clause", "_convert_months_between", "_convert_fetch_with_ties",
      "_convert_length", "_convert_instr", "_convert_ceil", "_convert_trim",
      "_convert_initcap", "_convert_listagg", "_convert_regexp_like", "_convert_nvl",
      "_convert_decode", "_convert_sysdate", "_convert_string_concatenation",
      "_convert_date_trunc", "_convert_substr", "_convert_to_char", "_convert_add_months",
      "_remove_from_dual", "_convert_rownum_to_top", "_convert_fetch_first">>

\* The rewrite stages of AzureToOracleConverter.convert, in the order it calls them.
ReverseStages ==
    <<"_convert_top_to_rownum", "_convert_getdate", "_convert_isnull",
      "_convert_string_concatenation", "_convert_cast_date", "_convert_case_to_decode">>

\* self.<name>(s) of the forward converter: the text it returns and the warnings it
\* appends to self.warnings.
ForwardStage(name, s) ==
    CASE name = "_decode_html_entities" -> [text |-> _decode_html_entities(s), warnings |-> <<>>]
      [] name = "_remove_optimizer_hints" ->
            [text |-> _remove_optimizer_hints(s), warnings |-> OptimizerHintsWarnings(s)]
      [] name = "_convert_date_literals" -> [text |-> _convert_date_literals(s), warnings |-> <<>>]
      [] name = "_convert_using_clause" ->
            [text |-> _convert_using_clause(s), warnings |-> UsingClauseWarnings(s)]
      [] name = "_convert_months_between" ->
            [text |-> _convert_months_between(s), warnings |-> MonthsBetweenWarnings(s)]
      [] name = "_convert_fetch_with_ties" ->
            [text |-> _convert_fetch_with_ties(s), warnings |-> FetchWithTiesWarnings(s)]
      [] name = "_convert_length" -> [text |-> _convert_length(s), warnings |-> <<>>]
      [] name = "_convert_instr" -> [text |-> _convert_instr(s), warnings |-> <<>>]
      [] name = "_convert_ceil" -> [text |-> _convert_ceil(s), warnings |-> <<>>]
      [] name = "_convert_trim" -> [text |-> _convert_trim(s), warnings |-> TrimWarnings(s)]
      [] name = "_convert_initcap" ->
            [text |-> _convert_initcap(s), warnings |-> InitcapWarnings(s)]
      [] name = "_convert_listagg" ->
            [text |-> _convert_listagg(s), warnings |-> ListaggWarnings(s)]
      [] name = "_convert_regexp_like" ->
            [text |-> _convert_regexp_like(s), warnings |-> RegexpLikeWarnings(s)]
      [] name = "_convert_nvl" -> [text |-> _convert_nvl(s), warnings |-> <<>>]
      [] name = "_convert_decode" -> [text |-> _convert_decode(s), warnings |-> <<>>]
      [] name = "_convert_sysdate" -> [text |-> _convert_sysdate(s), warnings |-> <<>>]
      [] name = "_convert_string_concatenation" ->
            [text |-> _convert_string_concatenation(s), warnings |-> <<>>]
      [] name = "_convert_date_trunc" -> [text |-> _convert_date_trunc(s), warnings |-> <<>>]
      [] name = "_convert_substr" -> [text |-> _convert_substr(s), warnings |-> <<>>]
      [] name = "_convert_to_char" -> [text |-> _convert_to_char(s), warnings |-> <<>>]
      [] name = "_convert_add_months" -> [text |-> _convert_add_months(s), warnings |-> <<>>]
      [] name = "_remove_from_dual" -> [text |-> _remove_from_dual(s), warnings |-> <<>>]
      [] name = "_convert_rownum_to_top" -> [text |-> _convert_rownum_to_top(s), warnings |-> <<>>]
      [] name = "_convert_fetch_first" -> [text |-> _convert_fetch_first(s), warnings |-> <<>>]

\* self.<name>(s) of the reverse converter.
ReverseStage(name, s) ==
    CASE name = "_convert_top_to_rownum" ->
            [text |-> _convert_top_to_rownum(s),
             warnings |-> Warn(TopOrderByWarns(s), TopOrderByMessage, "GENERAL")]
      [] name = "_convert_getdate" -> [text |-> _convert_getdate(s), warnings |-> <<>>]
      [] name = "_convert_isnull" -> [text |-> _convert_isnull(s), warnings |-> <<>>]
      [] name = "_convert_string_concatenation" ->
            [text |-> reverse_convert_string_concatenation(s),
             warnings |-> Warn(LooksLikeConcat(s), ReverseConcatMessage, "GENERAL")]
      [] name = "_convert_cast_date" -> [text |-> _convert_cast_date(s), warnings |-> <<>>]
      [] name = "_convert_case_to_decode" ->
            [text |-> _convert_case_to_decode(s),
             warnings |-> Warn(HasCaseWhen(s), CaseWhenMessage, "GENERAL")]

\* What the concurrent invocations are called with: for each direction a query that
\* is converted with a detector warning and stage warnings, and a statement that is
\* rejected.
PairInputs ==
    <<[dir |-> "forward", query |-> "SELECT TRIM(a) FROM t ORDER BY ROWNUM"],
      [dir |-> "forward", query |-> "INSERT INTO t VALUES (1)"],
      [dir |-> "reverse", query |-> "SELECT TOP 2 a+'x' FROM t ORDER BY a"],
      [dir |-> "reverse", query |-> "UPDATE t SET a = 1"]>>

\* The choices of one input for each invocation.  The invocations are interchangeable,
\* so they are numbered in the order of their inputs.
PairChoices == {f \in [Calls -> DOMAIN PairInputs] : \A c, d \in Calls : c <= d => f[c] <= f[d]}

\* One converter instance serving every invocation.
SharedCollector(c) == 1

\* `converter = OracleToAzureConverter()` / `AzureToOracleConverter()` in the entry
\* function: invocation c works on the instance it constructed, and __init__ and
\* convert() bind self.warnings of that instance to a new list.
Collector(c) == c

\* self.warnings of the converter of invocation c.
SelfWarnings(c) == collectors[Collector(c)]

\* The index of the stage named name in the sequence of stages.
StageIndex(names, name) == CHOOSE k \in 1..Len(names) : names[k] = name

\* The position after the stage named name.
AfterStage(names, name) ==
    IF StageIndex(names, name) = Len(names) THEN "return"
    ELSE names[StageIndex(names, name) + 1]

\* Invocation c moves to position to, with its locals and self.warnings set.
PairStep(c, to, text, ws, res) ==
    /\ calls' = [calls EXCEPT ![c].pc = to, ![c].converted = text, ![c].result = res]
    /\ collectors' = [collectors EXCEPT ![Collector(c)] = ws]
    /\ UNCHANGED <<callVars, splitVars, loopVars, guiVars>>

\* converted = self.<stage>(converted): invocation c moves to position to with the text
\* and the warnings `out` of the stage.
PairStageStep(c, to, out) ==
    PairStep(c, to, out.text, SelfWarnings(c) \o out.warnings, Pending)

\* OracleToAzureConverter.convert: self.warnings = [] and the input validation.
PairForwardValidate(c) ==
    /\ calls[c].pc = "convert"
    /\ calls[c].dir = "forward"
    /\ IF calls[c].query = ""
       THEN LET ws == <<ConversionWarning(InvalidInputMessage, "GENERAL")>>
            IN PairStep(c, "done", "", ws, [text |-> "", warnings |-> ws])
       ELSE PairStep(c, "_is_select_query", "", <<>>, Pending)

\* OracleToAzureConverter.convert, the SELECT check.
PairForwardCheckSelect(c) ==
    /\ calls[c].pc = "_is_select_query"
    /\ IF ~_is_select_query(calls[c].query)
       THEN LET ws == Append(SelfWarnings(c), ConversionWarning(NotSelectMessage, "GENERAL"))
            IN PairStep(c, "done", "", ws, [text |-> calls[c].query, warnings |-> ws])
       ELSE PairStep(c, "_detect_unsupported_features", "", SelfWarnings(c), Pending)

\* self._detect_unsupported_features(oracle_query); converted = oracle_query.
PairForwardDetect(c) ==
    /\ calls[c].pc = "_detect_unsupported_features"
    /\ PairStep(c, ForwardStages[1], calls[c].query,
                SelfWarnings(c) \o _detect_unsupported_features(calls[c].query), Pending)

\* converted = self.<stage>(converted) of the forward converter.
PairForwardStage(c) ==
    /\ calls[c].dir = "forward"
    /\ \E k \in 1..Len(ForwardStages) : calls[c].pc = ForwardStages[k]
    /\ PairStageStep(c, AfterStage(ForwardStages, calls[c].pc),
                     ForwardStage(calls[c].pc, calls[c].converted))

\* AzureToOracleConverter.convert: self.warnings = [], the SELECT check and
\* converted = azure_query.
PairReverseCheckSelect(c) ==
    /\ calls[c].pc = "convert"
    /\ calls[c].dir = "reverse"
    /\ IF ~reverse_is_select_query(calls[c].query)
       THEN LET ws == <<ConversionWarning(ReverseNotSelectMessage, "GENERAL")>>
            IN PairStep(c, "done", "", ws, [text |-> calls[c].query, warnings |-> ws])
       ELSE PairStep(c, ReverseStages[1], calls[c].query, <<>>, Pending)

\* converted = self.<stage>(converted) of the reverse converter.
PairReverseStage(c) ==
    /\ calls[c].dir = "reverse"
    /\ \E k \in 1..Len(ReverseStages) : calls[c].pc = ReverseStages[k]
    /\ PairStageStep(c, AfterStage(ReverseStages, calls[c].pc),
                     ReverseStage(calls[c].pc, calls[c].converted))

\* return converted, self.warnings
PairReturn(c) ==
    /\ calls[c].pc = "return"
    /\ PairStep(c, "done", calls[c].converted, SelfWarnings(c),
                [text |-> calls[c].converted, warnings |-> SelfWarnings(c)])

\* Every invocation has been called; each has constructed its converter.
InitPair ==
    /\ pc = "idle"
    /\ dir = "forward"
    /\ query = None
    /\ converted = ""
    /\ warnings = <<>>
    /\ result = Pending
    /\ original = None
    /\ stages = <<>>
    /\ SplitIdle
    /\ \E f \in PairChoices :
          calls = [c \in Calls |-> [pc |-> "convert", dir |-> PairInputs[f[c]].dir,
                                    query |-> PairInputs[f[c]].query,
                                    converted |-> "", result |-> Pending]]
    /\ collectors = [k \in Calls |-> <<>>]
    /\ LoopIdle
    /\ GuiIdle

NextPair ==
    \/ \E c \in Calls : PairForwardValidate(c)
    \/ \E c \in Calls : PairForwardCheckSelect(c)
    \/ \E c \in Calls : PairForwardDetect(c)
    \/ \E c \in Calls : PairForwardStage(c)
    \/ \E c \in Calls : PairReverseCheckSelect(c)
    \/ \E c \in Calls : PairReverseStage(c)
    \/ \E c \in Calls : PairReturn(c)

SpecPair == InitPair /\ [][NextPair]_vars

(***************************************************************************)
(* Properties.                                                             *)
(***************************************************************************)

\* The warning list ws has an entry with the message msg.
HasMessage(ws, msg) == \E k \in 1..Len(ws) : ws[k].message = msg

\* The category unsupported-statement-type: the "does not appear to be a SELECT
\* statement" warning of either converter.
HasUnsupportedStatementWarning(ws) ==
    HasMessage(ws, NotSelectMessage) \/ HasMessage(ws, ReverseNotSelectMessage)

\* The text s has the word w as a token, in any letter case.
HasToken(s, w) == \E i \in Idx(s) : WordAt(s, i, w) > 0

\* The text s has the token a, whitespace, and the token b.
HasTokenPair(s, a, b) ==
    \E i \in Idx(s) :
        /\ WordAt(s, i, a) > 0
        /\ SkipSpace(s, i + Len(a)) > i + Len(a)
        /\ WordAt(s, SkipSpace(s, i + Len(a)), b) > 0

\* The call has returned text for a query the forward converter converts.
ForwardConverted ==
    /\ pc = "done"
    /\ dir = "forward"
    /\ IsString(query)
    /\ query.str # ""
    /\ _is_select_query(query.str)

\* The call has returned text for a query the reverse converter converts.
ReverseConverted ==
    /\ pc = "done"
    /\ dir = "reverse"
    /\ IsString(query)
    /\ reverse_is_select_query(query.str)

RECURSIVE SkipLeading(_, _)
\* The index of the first character of s at or after i that is neither whitespace nor
\* inside a comment that starts there.
SkipLeading(s, i) ==
    LET k == SkipSpace(s, i)
    IN IF BlockCommentAt(s, k) > 0 THEN SkipLeading(s, BlockCommentAt(s, k))
       ELSE IF LineCommentAt(s, k) > 0 THEN SkipLeading(s, LineCommentAt(s, k))
       ELSE k

\* s starts with the keyword SELECT or WITH once leading whitespace and comments are
\* ignored.
StartsWithKeyword(s) ==
    \/ WordAt(s, SkipLeading(s, 1), "SELECT") > 0
    \/ WordAt(s, SkipLeading(s, 1), "WITH") > 0

\* What a rejecting call returns: the input, no stage run, and the warning.
RejectedUnchanged ==
    /\ result.text = query
    /\ stages = <<>>
    /\ result.warnings # <<>>
    /\ HasUnsupportedStatementWarning(result.warnings)

\* C1 as stated, for the non-empty input strings (the empty string is the input of
\* C2): in either direction, for every input string that does not start with the
\* SELECT or WITH keyword once leading whitespace and comments are ignored, the
\* returned text equals the input, no rewrite stage is run, and the warning list is
\* non-empty and has an unsupported-statement-type entry.
C1_NonSelectRejected ==
    (pc = "done" /\ IsString(query) /\ query.str # "" /\ ~StartsWithKeyword(query.str))
        => RejectedUnchanged

\* C2 as stated: in either direction, for every input that is empty or not a string,
\* the call does not raise: it returns the input unchanged with an invalid-input or
\* unsupported-statement-type warning.
C2_InvalidInputReturned ==
    (pc = "done" /\ (~IsString(query) \/ query = Str("")))
        => /\ result # Raised
           /\ result.text = query
           /\ \/ HasMessage(result.warnings, InvalidInputMessage)
              \/ HasUnsupportedStatementWarning(result.warnings)

\* C3 as stated: for every accepted query with balanced parentheses that has NVL
\* calls, nested to any depth, the forward output has no NVL( left.
C3_NoNvlLeft ==
    (/\ ForwardConverted
     /\ SearchCall(query.str, "NVL") > 0
     /\ ParenDepth(query.str, 1, Len(query.str) + 1) = 0)
        => SearchCall(result.text.str, "NVL") = 0

\* The only ROWNUM token of s is in one bound WHERE ROWNUM <= N or WHERE ROWNUM < N.
SingleWhereRownumBound(s) ==
    /\ Cardinality({i \in Idx(s) : WordAt(s, i, "ROWNUM") > 0}) = 1
    /\ \E i \in Idx(s) : LitAtCI(s, i, "WHERE") /\ RownumMatch(s, i).end > 0

\* The bound of such a query: its operator and N.
WhereRownumBound(s) ==
    RownumMatch(s, First({i \in Idx(s) : LitAtCI(s, i, "WHERE") /\ RownumMatch(s, i).end > 0}))

\* The text s has "TOP n" right after its first SELECT keyword.
TopAfterSelect(s, n) ==
    LET i == First({k \in Idx(s) : WordAt(s, k, "SELECT") > 0})
        top == " TOP " \o IntToStr(n)
    IN /\ i > 0
       /\ LitAt(s, i + 6, top)
       /\ SkipDigits(s, i + 6 + Len(top)) = i + 6 + Len(top)

\* C4: for every accepted query whose only ROWNUM reference is one bound
\* WHERE ROWNUM <= N or WHERE ROWNUM < N, the forward output has TOP N (for <=) or
\* TOP N-1 (for <) right after the SELECT keyword and has no ROWNUM token.
C4_RownumBoundBecomesTop ==
    (ForwardConverted /\ SingleWhereRownumBound(query.str))
        => /\ TopAfterSelect(result.text.str,
                             IF WhereRownumBound(query.str).operator = "<="
                             THEN ParseInt(WhereRownumBound(query.str).limit_str)
                             ELSE ParseInt(WhereRownumBound(query.str).limit_str) - 1)
           /\ ~HasToken(result.text.str, "ROWNUM")

\* C4: a query with a strict bound has been converted, and one with a weak bound.
C4_Witness ==
    /\ ForwardConverted
    /\ \/ /\ query = Str("SELECT * FROM t WHERE ROWNUM < 3 ORDER BY name")
          /\ result.text = Str("SELECT TOP 2 * FROM t ORDER BY name")
       \/ /\ query = Str("SELECT * FROM t WHERE ROWNUM <= 3")
          /\ result.text = Str("SELECT TOP 3 * FROM t ")

\* The index of the parenthesis that closes the call opened at index p of s, quoted
\* literals skipped; 0 when the call is not closed.
CallClose(s, p) ==
    First({j \in (p + 1)..Len(s) :
              /\ Ch(s, j) = ")"
              /\ LET st == SplitLoop(SplitStart, Slice(s, p + 1, j), 1)
                 IN st.depth = 0 /\ ~st.in_quote})

RECURSIVE WhenBranches(_, _)
\* The branches WHEN expr = match_i THEN result_i for i, i+1, ... of the arguments.
WhenBranches(args, i) ==
    IF 2 * i + 1 > Len(args) THEN ""
    ELSE (IF i > 1 THEN " " ELSE "")
         \o "WHEN " \o args[1] \o " = " \o args[2 * i] \o " THEN " \o args[2 * i + 1]
         \o WhenBranches(args, i + 1)

\* The CASE expression of a DECODE call with the arguments args.
ExpectedCase(args) ==
    "CASE " \o WhenBranches(args, 1)
        \o (IF Len(args) % 2 = 0 THEN " ELSE " \o args[Len(args)] ELSE "")
        \o " END"

\* The text s with its one DECODE call, at index i, rewritten as C5 states.
ExpectedDecode(s, i) ==
    LET p == CallAt(s, i, "DECODE")
        c == CallClose(s, p)
        args == _split_decode_args(Strip(Slice(s, p + 1, c)))
    IN IF Len(args) < 3 THEN s
       ELSE Slice(s, 1, i) \o ExpectedCase(args) \o From(s, c + 1)

\* C5 as stated: the DECODE stage, given a text with one closed DECODE call whose
\* arguments split into n top-level parts, replaces the call when n >= 3 by a CASE
\* expression with floor((n-1)/2) branches WHEN expr = match_i THEN result_i in
\* argument order, then ELSE last-argument if and only if n is even, then END; when
\* n < 3 it leaves the call unchanged.
C5_DecodeBecomesCase ==
    [][(/\ pc = "_convert_decode"
        /\ Cardinality({i \in Idx(converted) : CallAt(converted, i, "DECODE") > 0}) = 1
        /\ CallClose(converted, CallAt(converted, SearchCall(converted, "DECODE"), "DECODE")) > 0)
          => converted' = ExpectedDecode(converted, SearchCall(converted, "DECODE"))]_vars

\* The text s has a TOP row limit: the token TOP, then a number or a parenthesis.
ContainsTopLimit(s) ==
    \E i \in Idx(s) :
        /\ WordAt(s, i, "TOP") > 0
        /\ LET k == SkipSpace(s, i + 3)
           IN k <= Len(s) /\ (IsDigit(Ch(s, k)) \/ Ch(s, k) = "(")

\* C6 as stated: the forward call warns of a row limit with an ordering whenever its
\* input has both ROWNUM and ORDER BY, and the reverse call whenever its input has a
\* TOP row limit and an ORDER BY.
C6_RowLimitWithOrderingWarns ==
    /\ (ForwardConverted /\ HasToken(query.str, "ROWNUM") /\ HasTokenPair(query.str, "ORDER", "BY"))
          => HasMessage(result.warnings, RownumOrderByMessage)
    /\ (ReverseConverted /\ ContainsTopLimit(query.str) /\ HasTokenPair(query.str, "ORDER", "BY"))
          => HasMessage(result.warnings, TopOrderByMessage)

\* The NVL calls of s, each as the text from its name to its closing parenthesis.
NvlCalls(s) ==
    {Slice(s, i, CallClose(s, CallAt(s, i, "NVL")) + 1) :
        i \in {k \in Idx(s) : CallAt(s, k, "NVL") > 0}}

\* s is built from two-argument NVL calls, SYSDATE references and one bound
\* WHERE ROWNUM <= N.
ReversibleConstructs(s) ==
    /\ NvlCalls(s) # {}
    /\ \A i \in Idx(s) :
          CallAt(s, i, "NVL") > 0
              => Len(_split_function_args(
                         Slice(s, CallAt(s, i, "NVL") + 1, CallClose(s, CallAt(s, i, "NVL"))))) = 2
    /\ HasToken(s, "SYSDATE")
    /\ SingleWhereRownumBound(s)
    /\ WhereRownumBound(s).operator = "<="
    /\ ~HasToken(s, "DECODE")

\* The text s has the bound ROWNUM <= n.
HasRownumBound(s, n) ==
    \E i \in Idx(s) :
        /\ WordAt(s, i, "ROWNUM") > 0
        /\ LET o == SkipSpace(s, i + 6)
               d == SkipSpace(s, o + 2)
           IN LitAt(s, o, "<=") /\ SkipDigits(s, d) > d /\ Slice(s, d, SkipDigits(s, d)) = n

RECURSIVE WellFormedOfLen(_)
RECURSIVE ItemsOfLen(_)
\* The well-formed texts of n characters: a run of items.
WellFormedOfLen(n) ==
    IF n = 0 THEN {""}
    ELSE UNION {{item \o rest : item \in ItemsOfLen(k), rest \in WellFormedOfLen(n - k)} :
                   k \in 1..n}

\* The items of k characters: a character that is neither a parenthesis nor a quote,
\* a quoted literal closed by the quote that opens it, a well-formed text in
\* parentheses.
ItemsOfLen(k) ==
    IF k = 1 THEN SplitAlphabet \ {"(", ")", "'", "\""}
    ELSE UNION {{q \o body \o q : body \in TextsOfLen(SplitAlphabet \ {q}, k - 2)} :
                   q \in {"'", "\""}}
         \cup {"(" \o w \o ")" : w \in WellFormedOfLen(k - 2)}

\* The well-formed inputs of the scan: balanced parentheses, closed quotes.
WellFormedContents == UNION {WellFormedOfLen(n) : n \in 0..MaxLen}

\* The scan is at a character of its input.
Scanning == pc = "split" /\ pos <= Len(content)

\* C10: in the splitter's scan a comma ends the current argument if and only if the
\* depth is 0 and no quoted literal is open; parentheses change the depth only
\* outside quoted literals; a quote is closed only by the quote character that opened
\* it; and for well-formed input the depth is never negative and the scan ends at
\* depth 0 and unquoted.
C10_SplitterScan ==
    /\ [][(Scanning /\ SplitCurrentChar = ",")
            => IF depth = 0 /\ ~in_quote
               THEN parts' = Append(parts, Strip(current)) /\ current' = ""
               ELSE parts' = parts /\ current' = current \o ","]_vars
    /\ [][(Scanning /\ SplitCurrentChar \in {"(", ")"})
            => depth' = IF in_quote THEN depth
                        ELSE IF SplitCurrentChar = "(" THEN depth + 1 ELSE depth - 1]_vars
    /\ [][(Scanning /\ SplitCurrentChar \notin {"(", ")"}) => depth' = depth]_vars
    /\ [][(Scanning /\ in_quote) => (~in_quote' <=> SplitCurrentChar = quote_char)]_vars
    /\ [][(Scanning /\ ~in_quote)
            => IF SplitCurrentChar \in {"'", "\""}
               THEN in_quote' /\ quote_char' = SplitCurrentChar
               ELSE ~in_quote']_vars
    /\ [](content \in WellFormedContents
            => /\ depth >= 0
               /\ pc = "done" => (depth = 0 /\ ~in_quote))

\* C10: the scan of a well-formed text has kept the commas in a quoted literal and in
\* parentheses and has split at the comma after them.
C10_Witness ==
    /\ pc = "done"
    /\ content \in {"',',", "(,),"}
    /\ content \in WellFormedContents
    /\ parts \in {<<"','">>, <<"(,)">>}
    /\ depth = 0
    /\ ~in_quote

\* The indices of the top-level commas of text: the commas the scan meets at depth 0
\* with no quoted literal open.
TopLevelCommas(text) ==
    {k \in Idx(text) :
        /\ Ch(text, k) = ","
        /\ LET st == SplitLoop(SplitStart, Slice(text, 1, k), 1)
           IN st.depth = 0 /\ ~st.in_quote}

\* The arguments of text: the texts before, between and after its top-level commas,
\* each trimmed, in order.
TopLevelArguments(text) ==
    LET commas == TopLevelCommas(text)
        n == Cardinality(commas)
        \* the index of the i-th top-level comma; 0 and Len + 1 stand for the two ends
        at(i) == IF i = 0 THEN 0
                 ELSE IF i = n + 1 THEN Len(text) + 1
                 ELSE CHOOSE k \in commas : Cardinality({m \in commas : m < k}) = i - 1
    IN [i \in 1..(n + 1) |-> Strip(Slice(text, at(i - 1) + 1, at(i)))]

\* C11 as stated, for the non-empty input strings: the splitter returns one part for
\* each top-level argument, the number of top-level commas plus one, empty arguments
\* and a trailing one after a final comma included, each part being the argument's
\* text with surrounding whitespace trimmed.
C11_AllArgumentsReturned ==
    (pc = "done" /\ content # "") => parts = TopLevelArguments(content)

\* The text and the warnings of a call after a stage that returned out.
AfterStageRun(st, out) == [text |-> out.text, warnings |-> st.warnings \o out.warnings]

RECURSIVE RunForwardStages(_, _)
\* The forward stages from the k-th on, applied one after the other to st.  (The test on
\* st.text makes the result of a stage a value before the next stage starts.)
RunForwardStages(k, st) ==
    IF st.text = st.text /\ k > Len(ForwardStages) THEN st
    ELSE RunForwardStages(k + 1, AfterStageRun(st, ForwardStage(ForwardStages[k], st.text)))

RECURSIVE RunReverseStages(_, _)
\* The reverse stages from the k-th on, applied one after the other to st.  (The test on
\* st.text makes the result of a stage a value before the next stage starts.)
RunReverseStages(k, st) ==
    IF st.text = st.text /\ k > Len(ReverseStages) THEN st
    ELSE RunReverseStages(k + 1, AfterStageRun(st, ReverseStage(ReverseStages[k], st.text)))

\* What the entry function of direction d returns for the string q when it runs alone.
SoloRun(d, q) ==
    IF d = "forward"
    THEN IF q = "" THEN [text |-> "", warnings |-> <<ConversionWarning(InvalidInputMessage, "GENERAL")>>]
         ELSE IF ~_is_select_query(q)
         THEN [text |-> q, warnings |-> <<ConversionWarning(NotSelectMessage, "GENERAL")>>]
         ELSE RunForwardStages(1, [text |-> q, warnings |-> _detect_unsupported_features(q)])
    ELSE IF ~reverse_is_select_query(q)
         THEN [text |-> q, warnings |-> <<ConversionWarning(ReverseNotSelectMessage, "GENERAL")>>]
         ELSE RunReverseStages(1, [text |-> q, warnings |-> <<>>])

\* The solo runs of the inputs of the concurrent invocations, as pairs of an input and
\* what its solo run returns.
SoloResults ==
    {<<PairInputs[k], SoloRun(PairInputs[k].dir, PairInputs[k].query)>> : k \in DOMAIN PairInputs}

\* What invocation c returns when it runs alone.
SoloOf(c) ==
    (CHOOSE p \in SoloResults : p[1] = [dir |-> calls[c].dir, query |-> calls[c].query])[2]

\* The sequence a is the beginning of the sequence b.
IsPrefix(a, b) == Len(a) <= Len(b) /\ a = SubSeq(b, 1, Len(a))

\* C12: for any interleaving of the invocations, each invocation returns the text and
\* the warning list its solo run returns, and at every point its warnings collector
\* holds the warnings its solo run has appended so far and nothing else: no warning
\* of another invocation appears in it and none of its own is removed.
C12_InvocationsIndependent ==
    \A c \in DOMAIN calls :
        /\ calls[c].pc = "done" => calls[c].result = SoloOf(c)
        /\ calls[c].pc # "convert" => IsPrefix(SelfWarnings(c), SoloOf(c).warnings)

\* C12: a forward invocation has returned its warnings while a reverse invocation,
\* which has appended a warning of its own, is in the middle of its stages.
C12_Witness ==
    /\ DOMAIN calls = Calls
    /\ \E c, d \in Calls :
          /\ calls[c].pc = "done"
          /\ calls[c].dir = "forward"
          /\ Len(calls[c].result.warnings) >= 2
          /\ calls[d].pc = "_convert_isnull"
          /\ calls[d].dir = "reverse"
          /\ SelfWarnings(d) # <<>>
          /\ SelfWarnings(d) # calls[c].result.warnings

\* Every "(" of s has its ")" and the other way round.
Balanced(s) ==
    /\ ParenDepth(s, 1, Len(s) + 1) = 0
    /\ \A j \in Idx(s) : ParenDepth(s, 1, j + 1) >= 0

RECURSIVE TruncAsCast(_)
\* The balanced text s with every TRUNC(e) call written as CAST(e' AS DATE), e' being e
\* with its own TRUNC calls written the same way: by the structure of the text, the
\* first call's argument and the text after the call each on their own.  The call ends
\* at the parenthesis that closes it, a parenthesis inside a literal not being one.
TruncAsCast(s) ==
    LET start == SearchCall(s, "TRUNC")
        paren == CallAt(s, start, "TRUNC")
        close == CallClose(s, paren)
    IN IF start = 0 THEN s
       ELSE Slice(s, 1, start)
            \o "CAST(" \o Strip(TruncAsCast(Slice(s, paren + 1, close))) \o " AS DATE)"
            \o TruncAsCast(From(s, close + 1))

\* C13: for an accepted query with balanced parentheses, the TRUNC stage turns the
\* text it receives into the one where every TRUNC(e) call is CAST(e' AS DATE), nested
\* calls included, and leaves no TRUNC( behind; the returned text has no TRUNC( either,
\* and has CAST(GETDATE() AS DATE) when the query has TRUNC(SYSDATE).
C13_TruncBecomesCast ==
    [][(dir = "forward" /\ IsString(query) /\ Balanced(query.str))
        => /\ pc = "_convert_date_trunc"
              => /\ Balanced(converted)
                 /\ converted' = TruncAsCast(converted)
                 /\ SearchCall(converted', "TRUNC") = 0
           /\ (pc' = "done" /\ _is_select_query(query.str))
              => /\ SearchCall(result'.text.str, "TRUNC") = 0
                 /\ Contains(query.str, "TRUNC(SYSDATE)")
                    => Contains(result'.text.str, "CAST(GETDATE() AS DATE)")]_vars

\* The arguments of the call NAME( whose name starts at index i of s, or <<>> when no
\* such call starts there or its parenthesis never closes.
CallArguments(s, i, name) ==
    LET paren == CallAt(s, i, name)
        close == IF paren > 0 THEN CallClose(s, paren) ELSE 0
    IN IF close = 0 THEN <<>>
       ELSE _split_decode_args(Strip(Slice(s, paren + 1, close)))

\* The DECODE calls of s that have three arguments or more, by where they start.
DecodeCalls(s) == {i \in Idx(s) : Len(CallArguments(s, i, "DECODE")) >= 3}

\* s has a DECODE call of three arguments or more inside the arguments of another.
HasNestedDecode(s) ==
    \E i, j \in DecodeCalls(s) : i < j /\ j < CallClose(s, CallAt(s, i, "DECODE"))

\* C14: the DECODE rewrite reaches a fixpoint on self-nesting: when a query has a
\* DECODE call of three arguments or more inside the arguments of another, both are
\* expanded, and no DECODE( call with three arguments or more remains in what the
\* conversion returns.
C14_NoDecodeLeft ==
    (ForwardConverted /\ HasNestedDecode(query.str)) => DecodeCalls(result.text.str) = {}

\* s has an ISNULL call inside the arguments of another.
HasNestedIsnull(s) ==
    \E i, j \in Idx(s) :
        /\ CallAt(s, i, "ISNULL") > 0
        /\ CallAt(s, j, "ISNULL") > 0
        /\ i < j
        /\ j < CallClose(s, CallAt(s, i, "ISNULL"))

\* C15: the reverse ISNULL stage reaches a fixpoint on nested calls: when an ISNULL
\* call has another ISNULL call in its arguments, all of them are renamed to NVL and
\* no ISNULL( remains in what the reverse conversion returns.
C15_NoIsnullLeft ==
    (ReverseConverted /\ HasNestedIsnull(query.str))
        => SearchCall(result.text.str, "ISNULL") = 0

\* The names of the rewrite stages of the forward conversion.
ForwardStageNames == {ForwardStages[k] : k \in DOMAIN ForwardStages}

\* The warnings the rewrite stages append for the query q, in the order of the stages.
StageWarnings(q) == RunForwardStages(1, [text |-> q, warnings |-> <<>>]).warnings

\* C16: in a forward call on an accepted query the detectors run once, before any
\* rewrite stage and on the input as it was given: the step is entered only from the
\* SELECT check, no stage has run and no warning is there when it runs, it appends the
\* warnings the detectors give for the input, and it hands the input unchanged to the
\* first stage.  Every stage keeps the warnings that are there and appends its own, and
\* the returned list is the detectors' warnings followed by the stages' warnings.
C16_DetectorsRunFirst ==
    [][dir = "forward"
        => /\ pc' = "_detect_unsupported_features" => pc = "_is_select_query"
           /\ pc = "_detect_unsupported_features"
              => /\ stages = <<>> /\ stages' = <<>>
                 /\ warnings = <<>>
                 /\ warnings' = _detect_unsupported_features(query.str)
                 /\ converted' = query.str
                 /\ query' = query
                 /\ pc' = "_decode_html_entities"
           /\ pc \in ForwardStageNames
              => /\ IsPrefix(_detect_unsupported_features(query.str), warnings)
                 /\ IsPrefix(warnings, warnings')
                 /\ stages' = Append(stages, pc)
           /\ (pc = "return" /\ pc' = "done")
              => /\ stages = ForwardStages
                 /\ result'.warnings = _detect_unsupported_features(query.str)
                                          \o StageWarnings(query.str)]_vars

\* C16: a converted query has returned a warning of a detector followed by a warning
\* of a stage.
C16_Witness ==
    /\ ForwardConverted
    /\ _detect_unsupported_features(query.str) # <<>>
    /\ StageWarnings(query.str) # <<>>
    /\ result.warnings = _detect_unsupported_features(query.str) \o StageWarnings(query.str)

\* Every AND of s has a WHERE somewhere before it.
AndsUnderWhere(s) ==
    \A i \in Idx(s) :
        WordAt(s, i, "AND") > 0 => \E j \in 1..(i - 1) : WordAt(s, j, "WHERE") > 0

\* C17: when the row-limit rewrite removes a WHERE ROWNUM op N or an AND ROWNUM op N
\* clause, the text it leaves has no WHERE AND, no AND AND and no AND condition that
\* has lost its WHERE: the conditions that remain are under a WHERE.
C17_RemainingConditionsUnderWhere ==
    [][(/\ pc = "_convert_rownum_to_top"
        /\ ReSearch(converted, [i \in Idx(converted) |-> _ROWNUM_WHERE_PATTERN(converted, i)]))
        => /\ ~HasTokenPair(converted', "WHERE", "AND")
           /\ ~HasTokenPair(converted', "AND", "AND")
           /\ AndsUnderWhere(converted')]_vars

\* The stages whose rewrite is an approximation, and the category of the warning of each.
LossyStageNames ==
    {"_remove_optimizer_hints", "_convert_using_clause", "_convert_months_between",
     "_convert_fetch_with_ties", "_convert_trim", "_convert_initcap", "_convert_listagg",
     "_convert_regexp_like"}

LossyCategory(stage) ==
    CASE stage = "_remove_optimizer_hints" -> "OPTIMIZER_HINTS"
      [] stage = "_convert_using_clause" -> "USING_CLAUSE"
      [] stage = "_convert_months_between" -> "MONTHS_BETWEEN"
      [] stage = "_convert_fetch_with_ties" -> "FETCH_WITH_TIES"
      [] stage = "_convert_trim" -> "TRIM"
      [] stage = "_convert_initcap" -> "INITCAP"
      [] stage = "_convert_listagg" -> "LISTAGG_DISTINCT"
      [] stage = "_convert_regexp_like" -> "REGEXP_LIKE"

\* How many warnings of ws have the category c.
CountCategory(ws, c) == Cardinality({k \in DOMAIN ws : ws[k].warning_type = c})

\* The stage has changed the text from `before` to `after`; for the LISTAGG stage,
\* which also renames a LISTAGG without DISTINCT, the change is the DISTINCT rewrite,
\* which brings the <source_table> subquery in.
LossyRewriteDone(stage, before, after) ==
    IF stage = "_convert_listagg"
    THEN Contains(after, "<source_table>") /\ ~Contains(before, "<source_table>")
    ELSE after # before

\* C18: every lossy rewrite is paired with its warning: each of the eight stages
\* appends a warning of its category exactly when it changes the text, no other step
\* of the call appends or removes a warning of that category, and the call returns the
\* list as the stages left it; so the returned list has a warning of a stage's category
\* if and only if that stage changed the text during the call.
C18_LossyRewriteWarned ==
    [][(dir = "forward" /\ pc # "done")
        => /\ \A stage \in LossyStageNames :
                LET before == CountCategory(warnings, LossyCategory(stage))
                    after == CountCategory(warnings', LossyCategory(stage))
                IN IF pc = stage
                   THEN /\ after >= before
                        /\ after > before <=> LossyRewriteDone(stage, converted, converted')
                   ELSE after = before
           /\ (pc = "return" /\ pc' = "done") => result'.warnings = warnings]_vars

\* C18: a call has returned whose INITCAP rewrite changed the text and left its warning
\* and whose TRIM rewrite changed nothing and left none.
C18_Witness ==
    /\ ForwardConverted
    /\ SearchCall(query.str, "INITCAP") > 0
    /\ SearchCall(result.text.str, "INITCAP") = 0
    /\ CountCategory(result.warnings, "INITCAP") = 1
    /\ SearchCall(query.str, "TRIM") = 0
    /\ CountCategory(result.warnings, "TRIM") = 0

\* The limits n of the SELECT TOP n clauses of s, as text.
TopLimits(s) ==
    {Slice(s, TopMatch(s, i).digits, TopMatch(s, i).sep) :
        i \in {k \in Idx(s) : TopMatch(s, k).end > 0}}

\* How many bounds ROWNUM <= n the text s has, n being given as text.
CountRownumBound(s, n) ==
    Cardinality({i \in Idx(s) :
        /\ LitAt(s, i, "ROWNUM <= " \o n)
        /\ ~IsDigit(Ch(s \o " ", i + Len("ROWNUM <= " \o n)))})

\* The bound ROWNUM <= n is where the reverse conversion of q has to put it in r:
\* AND-joined at the WHERE of q, or else in a WHERE of its own just before the ORDER BY
\* of q, or else in a WHERE of its own at the end.
RownumBoundPlaced(q, r, n) ==
    IF HasToken(q, "WHERE")
    THEN Contains(r, "WHERE ROWNUM <= " \o n \o " AND ")
    ELSE IF HasTokenPair(q, "ORDER", "BY")
    THEN Contains(r, " WHERE ROWNUM <= " \o n \o " ORDER BY ")
    ELSE Len(r) > Len(n) + 16
         /\ SubSeq(r, Len(r) - Len(n) - 15, Len(r)) = "WHERE ROWNUM <= " \o n

\* C19: the reverse TOP stage leaves a text without a SELECT TOP n clause as it is, and
\* for an accepted query with SELECT TOP n clauses the reverse conversion returns a text
\* with no TOP clause that has, for the n of each of them, exactly one bound ROWNUM <= n,
\* every bound being at the WHERE of the query, or else before its ORDER BY, or else at
\* the end.
C19_TopBecomesRownumBound ==
    [][dir = "reverse"
        => /\ (pc = "_convert_top_to_rownum" /\ ~HasTop(converted)) => converted' = converted
           /\ (pc = "return" /\ pc' = "done" /\ HasTop(query.str))
              => /\ ~HasToken(result'.text.str, "TOP")
                 /\ \A n \in TopLimits(query.str) :
                       /\ CountRownumBound(result'.text.str, n) = 1
                       /\ RownumBoundPlaced(query.str, result'.text.str, n)]_vars

\* s has a single-quoted literal: an opening quote and the quote that closes it.
HasQuotedLiteral(s) == \E i, j \in Idx(s) : i < j /\ Ch(s, i) = "'" /\ Ch(s, j) = "'"

\* C20: the reverse concatenation stage changes the text only when it has both a + and
\* a single-quoted literal: when either is absent the stage leaves the text as it is and
\* appends no warning; and whenever the stage changes the text, which it only does by
\* writing a + as ||, the warning list has the concatenation warning, also when the
\* call returns.
C20_ConcatOnlyWithLiteral ==
    [][dir = "reverse"
        => /\ pc = "_convert_string_concatenation"
              => /\ (~Contains(converted, "+") \/ ~HasQuotedLiteral(converted))
                    => (converted' = converted /\ warnings' = warnings)
                 /\ converted' # converted
                    => /\ converted' = Replace(converted, " + ", " || ")
                       /\ HasMessage(warnings', ReverseConcatMessage)
           /\ (pc = "return" /\ pc' = "done" /\ "_convert_string_concatenation" \in
                  {stages[k] : k \in DOMAIN stages})
              => (\A k \in DOMAIN warnings : HasMessage(result'.warnings, warnings[k].message))]_vars

\* Where the calls NAME( of s start.
CallsOf(s, name) == {i \in Idx(s) : CallAt(s, i, name) > 0}

\* s with its call NAME(a, b) that starts at index i written as head \o b \o ", " \o a
\* \o ")", a and b being the two top-level arguments of the call.
SwappedCall(s, i, name, head) ==
    LET args == CallArguments(s, i, name)
        close == CallClose(s, CallAt(s, i, name))
    IN Slice(s, 1, i) \o head \o args[2] \o ", " \o args[1] \o ")" \o From(s, close + 1)

\* The stage named stage, reading `before` and writing `after`, has swapped the two
\* top-level arguments of the one call NAME( of `before`, when that call has two.
SwapsTopLevelArguments(stage, name, head, before, after) ==
    (/\ pc = stage
     /\ Cardinality(CallsOf(before, name)) = 1
     /\ \A i \in CallsOf(before, name) : Len(CallArguments(before, i, name)) = 2)
    => \A i \in CallsOf(before, name) : after = SwappedCall(before, i, name, head)

\* C21: the two swap stages take a call's two top-level arguments as its operands:
\* INSTR(s, sub) becomes CHARINDEX(sub, s) and MONTHS_BETWEEN(d1, d2) becomes
\* DATEDIFF(MONTH, d2, d1), a comma or a parenthesis inside a nested call or a quoted
\* literal of an operand being neither the separator nor the end of the call.
C21_SwapTopLevelArguments ==
    [][dir = "forward"
        => /\ SwapsTopLevelArguments("_convert_instr", "INSTR", "CHARINDEX(",
                                     converted, converted')
           /\ SwapsTopLevelArguments("_convert_months_between", "MONTHS_BETWEEN",
                                     "DATEDIFF(MONTH, ", converted, converted')]_vars

\* The n of the month offset m when the whole of m is -12 * n or n * -12, n being an
\* unsigned integer literal; "" when m is anything else.
WholeYears(m) ==
    LET star1 == SkipSpace(m, 4)
        n1 == SkipSpace(m, star1 + 1)
        end2 == SkipDigits(m, 1)
        star2 == SkipSpace(m, end2)
        twelve == SkipSpace(m, star2 + 1)
    IN IF /\ LitAt(m, 1, "-12") /\ LitAt(m, star1, "*")
          /\ SkipDigits(m, n1) > n1 /\ SkipDigits(m, n1) = Len(m) + 1
       THEN Slice(m, n1, Len(m) + 1)
       ELSE IF /\ end2 > 1 /\ LitAt(m, star2, "*") /\ LitAt(m, twelve, "-12")
               /\ twelve + 3 = Len(m) + 1
       THEN Slice(m, 1, end2)
       ELSE ""

\* What ADD_MONTHS(d, m) has to become.
ExpectedDateadd(d, m) ==
    IF WholeYears(m) # ""
    THEN "DATEADD(YEAR, -" \o WholeYears(m) \o ", " \o d \o ")"
    ELSE "DATEADD(MONTH, " \o m \o ", " \o d \o ")"

\* C22: the ADD_MONTHS stage writes a call ADD_MONTHS(d, m) of two top-level arguments
\* as DATEADD(YEAR, -n, d) exactly when the whole of m is -12 * n or n * -12 for an
\* unsigned integer literal n, and as DATEADD(MONTH, m, d), m in full, for every other m.
C22_WholeYearsIdiom ==
    [][(/\ dir = "forward"
        /\ pc = "_convert_add_months"
        /\ Cardinality(CallsOf(converted, "ADD_MONTHS")) = 1
        /\ \A i \in CallsOf(converted, "ADD_MONTHS") :
              Len(CallArguments(converted, i, "ADD_MONTHS")) = 2)
        => \A i \in CallsOf(converted, "ADD_MONTHS") :
              LET args == CallArguments(converted, i, "ADD_MONTHS")
                  close == CallClose(converted, CallAt(converted, i, "ADD_MONTHS"))
              IN converted' = Slice(converted, 1, i) \o ExpectedDateadd(args[1], args[2])
                                 \o From(converted, close + 1)]_vars

\* The calls TO_CHAR( with two top-level arguments or more, and the calls ADD_MONTHS(
\* with exactly two: the calls their stages can parse.
ParseableCalls(s, name) ==
    {i \in CallsOf(s, name) :
        IF name = "TO_CHAR" THEN Len(CallArguments(s, i, name)) >= 2
        ELSE Len(CallArguments(s, i, name)) = 2}

\* The text of the calls NAME( of s that their stage cannot parse, up to the end of the
\* call, or of s when the call has no closing parenthesis.
SkippedCalls(s, name) ==
    {LET close == CallClose(s, CallAt(s, i, name))
     IN IF close = 0 THEN From(s, i) ELSE Slice(s, i, close + 1) :
        i \in CallsOf(s, name) \ ParseableCalls(s, name)}

\* The stage named stage, reading `before` and writing `after`: it appends no warning,
\* it leaves the calls it cannot parse as they are, and it leaves no call it can parse.
SkipsOnlyUnparseable(stage, name, before, after) ==
    pc = stage
    => /\ warnings' = warnings
       /\ SkippedCalls(after, name) = SkippedCalls(before, name)
       /\ ParseableCalls(after, name) = {}

\* C23: a call the TO_CHAR or the ADD_MONTHS stage cannot parse is skipped without a
\* warning and left as it is, and every call of the query the stage can parse, before
\* it or after it, is rewritten.
C23_UnparseableCallSkipped ==
    [][dir = "forward"
        => /\ SkipsOnlyUnparseable("_convert_to_char", "TO_CHAR", converted, converted')
           /\ SkipsOnlyUnparseable("_convert_add_months", "ADD_MONTHS",
                                   converted, converted')]_vars

(***************************************************************************)
(* The rewrite loops of the forward stages, one iteration per step.        *)
(***************************************************************************)

LoopStageNames == {"_convert_nvl", "_convert_to_char", "_convert_add_months", "_convert_date_trunc"}

\* Texts the loops are run on: the queries of the conversion calls that hold calls of
\* the four stages, and texts whose arguments spell the stage's own name.
LoopInputs ==
    NvlQueries \cup TruncQueries \cup AddMonthsQueries \cup SkippedCallQueries
    \cup { "SELECT TO_CHAR(d, 'TO_CHAR(a, b)') FROM t",
           "SELECT TO_CHAR(TO_CHAR(d, 'MM'), 'YYYY-MM-DD'), TO_CHAR(e, 'DD', 'x') FROM t",
           "SELECT ADD_MONTHS((d), ADD_MONTHS) FROM t",
           "SELECT ADD_MONTHS(ADD_MONTHS(d, 1), -12 * 2), ADD_MONTHS(e, ADD_MONTHS(f, 1)) FROM t",
           "SELECT TRUNC( TRUNC ) (x), trunc(TRUNC (a)) FROM t",
           "SELECT NVL (a, b), nvl(NVL(c, (d)), e) FROM t" }

\* _convert_nvl: one pass of `while prev != query`, the test that follows it included.
NvlIteration(s) ==
    LET n == NvlPass(s)
    IN [exit |-> n = s, text |-> n, prev |-> Str(s)]

\* _convert_to_char: one pass of `while True`.
ToCharIteration(s) ==
    LET start == SearchCall(s, "TO_CHAR")
        paren == CallAt(s, start, "TO_CHAR")
        end == MatchingParenEnd(s, paren)
        args == _split_function_args(Strip(Slice(s, paren + 1, end - 1)))
    IN IF start = 0 \/ end = 0 \/ Len(args) < 2
       THEN [exit |-> TRUE, text |-> s, prev |-> None]
       ELSE [exit |-> FALSE, prev |-> None,
             text |-> Slice(s, 1, start) \o ToCharReplacement(args) \o From(s, end)]

\* _convert_add_months: one pass of `while True`.
AddMonthsIteration(s) ==
    LET start == SearchCall(s, "ADD_MONTHS")
        paren == CallAt(s, start, "ADD_MONTHS")
        end == MatchingParenEnd(s, paren)
        args == _split_function_args(Strip(Slice(s, paren + 1, end - 1)))
    IN IF start = 0 \/ end = 0 \/ Len(args) # 2
       THEN [exit |-> TRUE, text |-> s, prev |-> None]
       ELSE [exit |-> FALSE, prev |-> None,
             text |-> Slice(s, 1, start) \o AddMonthsReplacement(args) \o From(s, end)]

\* The slice that puts the replacement before the call instead of in its place.
DateTruncIterationKeepsCall(s) ==
    LET start == SearchCall(s, "TRUNC")
        paren == CallAt(s, start, "TRUNC")
        end == MatchingParenEnd(s, paren)
    IN IF start = 0 \/ end = 0
       THEN [exit |-> TRUE, text |-> s, prev |-> None]
       ELSE [exit |-> FALSE, prev |-> None,
             text |-> Slice(s, 1, start)
                      \o "CAST(" \o Strip(Slice(s, paren + 1, end - 1)) \o " AS DATE)"
                      \o From(s, start)]

\* _convert_date_trunc: one pass of `while True`.
DateTruncIteration(s) ==
    LET start == SearchCall(s, "TRUNC")
        paren == CallAt(s, start, "TRUNC")
        end == MatchingParenEnd(s, paren)
    IN IF start = 0 \/ end = 0
       THEN [exit |-> TRUE, text |-> s, prev |-> None]
       ELSE [exit |-> FALSE, prev |-> None,
             text |-> Slice(s, 1, start)
                      \o "CAST(" \o Strip(Slice(s, paren + 1, end - 1)) \o " AS DATE)"
                      \o From(s, end)]

\* The pass `it` of the loop of `stage` has run: the loop is left, or starts over.
LoopStep(stage, it) ==
    /\ loop_pc = "loop"
    /\ loop_stage = stage
    /\ loop_text' = it.text
    /\ loop_prev' = it.prev
    /\ loop_pc' = IF it.exit THEN "returned" ELSE "loop"
    /\ UNCHANGED <<loop_stage, loop_input>>
    /\ UNCHANGED <<callVars, splitVars, pairVars, guiVars>>

NvlLoop == LoopStep("_convert_nvl", NvlIteration(loop_text))

ToCharLoop == LoopStep("_convert_to_char", ToCharIteration(loop_text))

AddMonthsLoop == LoopStep("_convert_add_months", AddMonthsIteration(loop_text))

DateTruncLoop == LoopStep("_convert_date_trunc", DateTruncIteration(loop_text))

\* A stage has been called with `loop_input`; its loop is about to start.
InitLoop ==
    /\ pc = "idle"
    /\ dir = "forward"
    /\ query = None
    /\ converted = ""
    /\ warnings = <<>>
    /\ result = Pending
    /\ original = None
    /\ stages = <<>>
    /\ SplitIdle
    /\ PairIdle
    /\ GuiIdle
    /\ loop_stage \in LoopStageNames
    /\ loop_input \in LoopInputs
    /\ loop_text = loop_input
    /\ loop_prev = None
    /\ loop_pc = "loop"

NextLoop ==
    \/ NvlLoop
    \/ ToCharLoop
    \/ AddMonthsLoop
    \/ DateTruncLoop

\* The interpreter runs a started loop on: a pass that can run does run.  This is
\* WF_vars(NextLoop) with its ENABLED written out: a pass can run exactly at the head
\* of the loop, and every pass changes loop_pc or loop_text.
LoopFairness == []<>(loop_pc # "loop") \/ []<><<NextLoop>>_vars

SpecLoop == InitLoop /\ [][NextLoop]_vars /\ LoopFairness

\* The occurrences of the own pattern of the loop of `stage` in s.
Occurrences(stage, s) ==
    IF stage = "_convert_nvl" THEN {i \in Idx(s) : _NVL_PATTERN(s, i) > 0}
    ELSE IF stage = "_convert_to_char" THEN CallsOf(s, "TO_CHAR")
    ELSE IF stage = "_convert_add_months" THEN CallsOf(s, "ADD_MONTHS")
    ELSE CallsOf(s, "TRUNC")

\* What the stage's method returns for s.
LoopStageResult(stage, s) ==
    IF stage = "_convert_nvl" THEN _convert_nvl(s)
    ELSE IF stage = "_convert_to_char" THEN _convert_to_char(s)
    ELSE IF stage = "_convert_add_months" THEN _convert_add_months(s)
    ELSE _convert_date_trunc(s)

\* A pass of a loop leaves the loop or leaves fewer occurrences of the stage's pattern.
PassExitsOrReduces ==
    loop_pc = "loop" =>
        \/ loop_pc' = "returned"
        \/ Cardinality(Occurrences(loop_stage, loop_text'))
              < Cardinality(Occurrences(loop_stage, loop_text))

\* C24: the NVL loop and the scan-and-replace loops of TO_CHAR, ADD_MONTHS and TRUNC
\* finish for every input: every pass either leaves the loop or strictly reduces the
\* number of occurrences of the stage's own pattern, so every started loop returns,
\* and it returns what the stage's method returns within a conversion call.
C24_LoopsTerminate ==
    /\ [][PassExitsOrReduces]_vars
    /\ <>(loop_pc = "returned")
    /\ [](loop_pc = "returned" => loop_text = LoopStageResult(loop_stage, loop_input))

\* A loop has rewritten at least two occurrences, one per pass, and has returned.
C24_Witness ==
    /\ loop_pc = "returned"
    /\ Cardinality(Occurrences(loop_stage, loop_input)) >= 2
    /\ Occurrences(loop_stage, loop_text) = {}

\* The TRUNC calls of s that have two or more top-level arguments and no TRUNC call
\* inside them, each as its text.
MultiArgumentTruncs(s) ==
    {c \in {LET close == CallClose(s, CallAt(s, i, "TRUNC"))
            IN IF close = 0 THEN "" ELSE Slice(s, i, close + 1) :
               i \in {k \in CallsOf(s, "TRUNC") : Len(CallArguments(s, k, "TRUNC")) >= 2}} :
        c # "" /\ CallsOf(c, "TRUNC") = {1}}

\* C25: the date-truncation stage rewrites only single-argument TRUNC calls: a call
\* with a second argument, TRUNC(x, 2) or TRUNC(d, 'MM'), is in the text after the
\* stage as it was before it.
C25_OnlySingleArgumentTrunc ==
    [][(dir = "forward" /\ pc = "_convert_date_trunc")
        => MultiArgumentTruncs(converted) \subseteq MultiArgumentTruncs(converted')]_vars

(***************************************************************************)
(* The two-pane editor (QueryConverterGUI).  A text widget is modelled by  *)
(* its content without the newline the widget keeps at its end; its text   *)
(* colour, which no handler reads, is left out.  The characters outside    *)
(* ASCII of the window title and of the status lines are written "<->",    *)
(* "->", "v" and "!".                                                      *)
(***************************************************************************)

MaxSwaps == 2

OraclePlaceholder ==
    "-- Enter Oracle SQL query here\n"
    \o "-- Example:\n"
    \o "SELECT \n"
    \o "    employee_id,\n"
    \o "    NVL(first_name, 'N/A') || ' ' || last_name AS full_name,\n"
    \o "    DECODE(status, 'A', 'Active', 'I', 'Inactive') AS status,\n"
    \o "    TRUNC(hire_date) AS hire_date\n"
    \o "FROM employees\n"
    \o "WHERE ROWNUM <= 10"

AzurePlaceholder ==
    "-- Enter Azure SQL query here\n"
    \o "-- Example:\n"
    \o "SELECT TOP 10\n"
    \o "    employee_id,\n"
    \o "    ISNULL(first_name, 'N/A') + ' ' + last_name AS full_name,\n"
    \o "    CASE WHEN status = 'A' THEN 'Active' \n"
    \o "         WHEN status = 'I' THEN 'Inactive' END AS status,\n"
    \o "    CAST(hire_date AS DATE) AS hire_date\n"
    \o "FROM employees"

NormalTitle == "Oracle <-> Azure SQL Query Converter"

SwappedTitle == "Azure SQL <-> Oracle Query Converter [SWAPPED]"

\* What the user types into a pane.
UserTexts ==
    { "SELECT NVL(a, b) FROM t",
      "  SELECT * FROM t WHERE ROWNUM <= 2\n" }

\* text_widget.get('1.0', tk.END) of a widget whose content is text.
Get(text) == text \o "\n"

\* convert_oracle_select_to_azure(q) and convert_azure_select_to_oracle(q) for a string.
convert_oracle_select_to_azure(q) == SoloRun("forward", q)

convert_azure_select_to_oracle(q) == SoloRun("reverse", q)

RECURSIVE WarningLines(_, _)
\* The numbered lines of update_warnings for the warnings from the i-th on.
WarningLines(ws, i) ==
    IF i > Len(ws) THEN ""
    ELSE IntToStr(i) \o ". " \o ws[i].message \o "\n" \o WarningLines(ws, i + 1)

\* The status panel after update_warnings(ws, direction).
update_warnings(ws, direction) ==
    IF Len(ws) > 0
    THEN "v Conversion complete (" \o direction \o ")\n\n"
         \o IntToStr(Len(ws)) \o " warning(s):\n" \o WarningLines(ws, 1)
    ELSE "v Conversion complete (" \o direction \o ") - No warnings."

\* The status panel after show_warning(message).
show_warning(message) == "! " \o message

\* The user edits the left pane.
TypeLeft ==
    /\ \E t \in UserTexts : left_text' = t
    /\ UNCHANGED <<is_swapped, title, left_frame, right_frame, right_text,
                   warnings_text, swaps>>
    /\ UNCHANGED <<callVars, splitVars, pairVars, loopVars>>

\* The user edits the right pane.
TypeRight ==
    /\ \E t \in UserTexts : right_text' = t
    /\ UNCHANGED <<is_swapped, title, left_frame, right_frame, left_text,
                   warnings_text, swaps>>
    /\ UNCHANGED <<callVars, splitVars, pairVars, loopVars>>

\* on_focus_in(self.left_text, placeholder).
FocusInLeft ==
    /\ IF Strip(Get(left_text)) = Strip(OraclePlaceholder)
       THEN left_text' = ""
       ELSE UNCHANGED left_text
    /\ UNCHANGED <<is_swapped, title, left_frame, right_frame, right_text,
                   warnings_text, swaps>>
    /\ UNCHANGED <<callVars, splitVars, pairVars, loopVars>>

\* on_focus_out(self.left_text, placeholder).
FocusOutLeft ==
    /\ IF Strip(Get(left_text)) = ""
       THEN left_text' = OraclePlaceholder \o left_text
       ELSE UNCHANGED left_text
    /\ UNCHANGED <<is_swapped, title, left_frame, right_frame, right_text,
                   warnings_text, swaps>>
    /\ UNCHANGED <<callVars, splitVars, pairVars, loopVars>>

\* on_focus_in(self.right_text, placeholder).
FocusInRight ==
    /\ IF Strip(Get(right_text)) = Strip(AzurePlaceholder)
       THEN right_text' = ""
       ELSE UNCHANGED right_text
    /\ UNCHANGED <<is_swapped, title, left_frame, right_frame, left_text,
                   warnings_text, swaps>>
    /\ UNCHANGED <<callVars, splitVars, pairVars, loopVars>>

\* on_focus_out(self.right_text, placeholder).
FocusOutRight ==
    /\ IF Strip(Get(right_text)) = ""
       THEN right_text' = AzurePlaceholder \o right_text
       ELSE UNCHANGED right_text
    /\ UNCHANGED <<is_swapped, title, left_frame, right_frame, left_text,
                   warnings_text, swaps>>
    /\ UNCHANGED <<callVars, splitVars, pairVars, loopVars>>

\* The right panel and the status panel after a conversion that returned out.
ShowAzure(out) ==
    /\ right_text' = out.text
    /\ warnings_text' = update_warnings(out.warnings, "Oracle -> Azure")
    /\ UNCHANGED left_text

\* The left panel and the status panel after a conversion that returned out.
ShowOracle(out) ==
    /\ left_text' = out.text
    /\ warnings_text' = update_warnings(out.warnings, "Azure -> Oracle")
    /\ UNCHANGED right_text

\* convert_oracle_to_azure, the handler of the button "Oracle -> Azure".
ConvertOracleToAzure ==
    /\ IF Strip(Get(left_text)) = "" \/ StartsWith(Strip(Get(left_text)), "-- Enter Oracle")
       THEN /\ warnings_text' = show_warning("Please enter an Oracle SQL query.")
            /\ UNCHANGED <<left_text, right_text>>
       ELSE ShowAzure(convert_oracle_select_to_azure(Strip(Get(left_text))))
    /\ UNCHANGED <<is_swapped, title, left_frame, right_frame, swaps>>
    /\ UNCHANGED <<callVars, splitVars, pairVars, loopVars>>

\* convert_azure_to_oracle, the handler of the button "Azure -> Oracle".
ConvertAzureToOracle ==
    /\ IF Strip(Get(right_text)) = "" \/ StartsWith(Strip(Get(right_text)), "-- Enter Azure")
       THEN /\ warnings_text' = show_warning("Please enter an Azure SQL query.")
            /\ UNCHANGED <<left_text, right_text>>
       ELSE ShowOracle(convert_azure_select_to_oracle(Strip(Get(right_text))))
    /\ UNCHANGED <<is_swapped, title, left_frame, right_frame, swaps>>
    /\ UNCHANGED <<callVars, splitVars, pairVars, loopVars>>

\* swap_queries restoring nothing when it swaps back: the branch for the normal
\* orientation is missing.
SwapQueriesKeepsLabels ==
    /\ swaps < MaxSwaps
    /\ swaps' = swaps + 1
    /\ left_text' = Strip(Get(right_text))
    /\ right_text' = Strip(Get(left_text))
    /\ is_swapped' = ~is_swapped
    /\ title' = SwappedTitle
    /\ left_frame' = "Azure SQL Query (Swapped)"
    /\ right_frame' = "Oracle SQL Query (Swapped)"
    /\ warnings_text' =
          "v Queries "
          \o (IF ~is_swapped THEN "swapped - Azure is now on LEFT, Oracle on RIGHT"
              ELSE "swapped back to normal - Oracle on LEFT, Azure on RIGHT")
          \o "."
    /\ UNCHANGED <<callVars, splitVars, pairVars, loopVars>>

\* swap_queries, the handler of the swap button.
SwapQueries ==
    /\ swaps < MaxSwaps
    /\ swaps' = swaps + 1
    /\ left_text' = Strip(Get(right_text))
    /\ right_text' = Strip(Get(left_text))
    /\ is_swapped' = ~is_swapped
    /\ IF ~is_swapped
       THEN /\ title' = SwappedTitle
            /\ left_frame' = "Azure SQL Query (Swapped)"
            /\ right_frame' = "Oracle SQL Query (Swapped)"
       ELSE /\ title' = NormalTitle
            /\ left_frame' = "Oracle SQL Query"
            /\ right_frame' = "Azure SQL Query"
    /\ warnings_text' =
          "v Queries "
          \o (IF ~is_swapped THEN "swapped - Azure is now on LEFT, Oracle on RIGHT"
              ELSE "swapped back to normal - Oracle on LEFT, Azure on RIGHT")
          \o "."
    /\ UNCHANGED <<callVars, splitVars, pairVars, loopVars>>

\* clear_text(self.left_text), the handler of the button "Clear Oracle".
ClearOracle ==
    /\ left_text' = ""
    /\ UNCHANGED <<is_swapped, title, left_frame, right_frame, right_text,
                   warnings_text, swaps>>
    /\ UNCHANGED <<callVars, splitVars, pairVars, loopVars>>

\* clear_text(self.right_text), the handler of the button "Clear Azure".
ClearAzure ==
    /\ right_text' = ""
    /\ UNCHANGED <<is_swapped, title, left_frame, right_frame, left_text,
                   warnings_text, swaps>>
    /\ UNCHANGED <<callVars, splitVars, pairVars, loopVars>>

\* clear_all, the handler of the button "Clear All".
ClearAll ==
    /\ left_text' = ""
    /\ right_text' = ""
    /\ warnings_text' = "All fields cleared. Ready for new conversion."
    /\ UNCHANGED <<is_swapped, title, left_frame, right_frame, swaps>>
    /\ UNCHANGED <<callVars, splitVars, pairVars, loopVars>>

\* QueryConverterGUI.__init__ has run.
InitGui ==
    /\ pc = "idle"
    /\ dir = "forward"
    /\ query = None
    /\ converted = ""
    /\ warnings = <<>>
    /\ result = Pending
    /\ original = None
    /\ stages = <<>>
    /\ SplitIdle
    /\ PairIdle
    /\ LoopIdle
    /\ is_swapped = FALSE
    /\ title = NormalTitle
    /\ left_frame = "Oracle SQL Query"
    /\ right_frame = "Azure SQL Query"
    /\ left_text = OraclePlaceholder
    /\ right_text = AzurePlaceholder
    /\ warnings_text = "Ready. Select a query and click a conversion button."
    /\ swaps = 0

NextGui ==
    \/ TypeLeft
    \/ TypeRight
    \/ FocusInLeft
    \/ FocusOutLeft
    \/ FocusInRight
    \/ FocusOutRight
    \/ ConvertOracleToAzure
    \/ ConvertAzureToOracle
    \/ SwapQueries
    \/ ClearOracle
    \/ ClearAzure
    \/ ClearAll

SpecGui == InitGui /\ [][NextGui]_vars

\* is_swapped tells whether swap_queries has run an odd number of times, and the window
\* title and the panel labels agree with it.
SwapFlagAndLabelsAgree ==
    /\ is_swapped <=> (swaps % 2 = 1)
    /\ IF is_swapped
       THEN /\ Contains(title, "[SWAPPED]")
            /\ Contains(left_frame, "Azure")
            /\ Contains(right_frame, "Oracle")
       ELSE /\ title = NormalTitle
            /\ left_frame = "Oracle SQL Query"
            /\ right_frame = "Azure SQL Query"

RejectedAsNotSelect ==
    \E k \in DOMAIN result.warnings :
        result.warnings[k].message
            = (IF dir = "forward" THEN NotSelectMessage ELSE ReverseNotSelectMessage)

\* The acceptance test of the entry function of the other direction rejects the query.
OtherDirectionRejects ==
    IF dir = "forward" THEN ~reverse_is_select_query(query.str)
    ELSE ~_is_select_query(query.str)

\* C27: the two entry functions apply the same acceptance test: a non-empty query is
\* rejected as not being a SELECT by the one exactly when it is by the other; a query
\* whose SELECT or WITH comes after a comment is accepted by both.
C27_SameAcceptanceTest ==
    (pc = "done" /\ original = None /\ IsString(query) /\ Truthy(query))
        => (RejectedAsNotSelect <=> OtherDirectionRejects)

\* The text holds a WHERE or AND row-limit condition the forward rewrite acts on.
HasRownumCondition(s) == \E i \in Idx(s) : _ROWNUM_WHERE_PATTERN(s, i) > 0

\* The count the forward row-limit rewrite computes for the first such condition of s.
RowLimitWritten(s) ==
    RownumLimit(RownumMatch(s, First({i \in Idx(s) : _ROWNUM_WHERE_PATTERN(s, i) > 0})))

\* C28: the count the forward row-limit rewrite writes after TOP is never negative:
\* for ROWNUM < N and ROWNUM <= N, N = 0 included, it is an integer >= 0.
C28_TopCountNotNegative ==
    [][(dir = "forward" /\ pc = "_convert_rownum_to_top" /\ HasRownumCondition(converted))
        => (RowLimitWritten(converted) >= 0 /\ ~Contains(converted', "TOP -"))]_vars

\* The entities the QA checklist looks for under 'html_entities' that the claim names.
HtmlEntities == {"&gt;", "&lt;", "&amp;", "&quot;", "&apos;"}

\* C29: for every accepted query the text the forward call returns holds none of the
\* entities &gt; &lt; &amp; &quot; &apos;, a doubly escaped input such as &amp;lt;
\* included.
C29_NoHtmlEntityLeft ==
    (/\ pc = "done" /\ dir = "forward" /\ original = None
     /\ IsString(query) /\ Truthy(query) /\ _is_select_query(query.str))
        => \A e \in HtmlEntities : ~Contains(result.text.str, e)

\* The content of the pane whose label names the dialect.
PaneLabelled(dialect, left, right) ==
    IF Contains(left_frame, dialect) THEN left ELSE right

\* The handler of a conversion button has converted the content of the pane labelled
\* `from` and has put the text into the pane labelled `to`, the other pane kept.
ConvertsBetweenLabelledPanes(from, to, out) ==
    /\ PaneLabelled(to, left_text', right_text') = out.text
    /\ PaneLabelled(from, left_text', right_text') = PaneLabelled(from, left_text, right_text)

\* C30: in every state of the editor, after any number of swaps, the action
\* "Oracle -> Azure" reads its input from the pane that is labelled Oracle and writes
\* the result to the pane that is labelled Azure, and "Azure -> Oracle" the converse.
C30_ConvertFollowsLabels ==
    [][/\ (ConvertOracleToAzure /\ StartsWith(warnings_text', "v Conversion complete"))
          => ConvertsBetweenLabelledPanes("Oracle", "Azure",
                convert_oracle_select_to_azure(
                    Strip(Get(PaneLabelled("Oracle", left_text, right_text)))))
       /\ (ConvertAzureToOracle /\ StartsWith(warnings_text', "v Conversion complete"))
          => ConvertsBetweenLabelledPanes("Azure", "Oracle",
                convert_azure_select_to_oracle(
                    Strip(Get(PaneLabelled("Azure", left_text, right_text)))))]_vars

====
